---- MODULE Spec2Model ----
(***************************************************************************)
(* Backtesting engine of qlib: the single-asset Backtester                 *)
(* (qlib/backtesting/engine.py) and the multi-asset PortfolioBacktester    *)
(* (qlib/backtesting/portfolio.py).                                        *)
(*                                                                         *)
(* Floats are modelled as exact rationals [n, d] in lowest terms with      *)
(* d > 0; the missing value (NaN / NaT) is 0/0.  A pandas Series is a      *)
(* sequence of [t, v] records in index order; a DataFrame is a sequence of *)
(* [t, row] records where row maps a column label to a value.              *)
(***************************************************************************)
EXTENDS Integers, Sequences, FiniteSets, TLC

VARIABLES
    bt,      \* the Backtester instance (self), or None before construction
    ctor,    \* the arguments and outcome of Backtester.__init__
    call,    \* the latest Backtester.run call: its argument, locals and outcome
    nfail,   \* whether some run on the instance has raised
    pf,      \* the PortfolioBacktester instance (self), or None
    pctor,   \* the arguments and outcome of PortfolioBacktester.__init__
    pcall,   \* the latest PortfolioBacktester.run call: argument, locals, result
    rw,      \* the latest direct _build_rebalance_weights call and its result
    thr,     \* per caller thread: the run call in progress, its locals, result
    ld,      \* the DataLoader.load call: the sources, its position, its outcome
    mcall    \* the latest metrics call: the function, its argument, its result

btvars == <<bt, ctor, call, nfail>>

pfvars == <<pf, pctor, pcall, rw>>

\* what the two simulators' own calls leave alone
othervars == <<thr, ld, mcall>>

vars == <<bt, ctor, call, nfail, pf, pctor, pcall, rw, thr, ld, mcall>>

----------------------------------------------------------------------------
(* Bounds of the model *)

\* single-asset series carry timestamps 1..MaxT
MaxT == 3

\* price tables of the portfolio simulator have at most MaxP rows
MaxP == 3

\* a timeline handed to _build_rebalance_weights has at most MaxLen timestamps
MaxLen == 4

\* timestamps per calendar day
SlotsPerDay == 2

\* the longest returns series handed to a metric
MaxRets == 3

\* caller threads that share one simulator instance
MaxThreads == 2

----------------------------------------------------------------------------
(* Exact arithmetic with a missing value *)

None == [kind |-> "None"]

NaN == [n |-> 0, d |-> 0]

IsNaN(x) == x.d = 0

Abs(i) == IF i < 0 THEN -i ELSE i

RECURSIVE GCD(_, _)
GCD(a, b) == IF b = 0 THEN a ELSE GCD(b, a % b)

\* the rational n/d in lowest terms (d # 0)
Rat(n, d) ==
    LET g == GCD(Abs(n), Abs(d))
        s == IF d < 0 THEN -1 ELSE 1
    IN  [n |-> (s * n) \div g, d |-> (s * d) \div g]

Int2R(i) == [n |-> i, d |-> 1]

Zero == Int2R(0)

RAdd(a, b) == IF IsNaN(a) \/ IsNaN(b) THEN NaN
              ELSE Rat(a.n * b.d + b.n * a.d, a.d * b.d)

RNeg(a) == IF IsNaN(a) THEN NaN ELSE [n |-> -a.n, d |-> a.d]

RSub(a, b) == RAdd(a, RNeg(b))

RMul(a, b) == IF IsNaN(a) \/ IsNaN(b) THEN NaN
              ELSE Rat(a.n * b.n, a.d * b.d)

\* 0/0 is missing; x/0 with x # 0 does not arise (prices are positive, and a
\* row whose absolute values sum to zero holds only zeros)
RDiv(a, b) == IF IsNaN(a) \/ IsNaN(b) \/ b.n = 0 THEN NaN
              ELSE Rat(a.n * b.d, a.d * b.n)

RAbs(a) == IF IsNaN(a) THEN NaN ELSE [n |-> Abs(a.n), d |-> a.d]

\* comparisons with a missing operand are false
RLt(a, b) == ~IsNaN(a) /\ ~IsNaN(b) /\ a.n * b.d < b.n * a.d

RLe(a, b) == ~IsNaN(a) /\ ~IsNaN(b) /\ a.n * b.d <= b.n * a.d

FillNa(x, v) == IF IsNaN(x) THEN v ELSE x

\* a sequence / a function given by a rule, with every element computed once
Tuple(s) == s \o <<>>

Func(f) == f @@ <<>>

----------------------------------------------------------------------------
(* pandas Series operations used by the engine *)

Min(S) == CHOOSE m \in S : \A x \in S : m <= x

Max(S) == CHOOSE m \in S : \A x \in S : m >= x

RECURSIVE SortedSeq(_)
SortedSeq(S) == IF S = {} THEN <<>>
                ELSE <<Min(S)>> \o SortedSeq(S \ {Min(S)})

Index(s) == {s[i].t : i \in 1..Len(s)}

At(s, t) == (CHOOSE i \in 1..Len(s) : s[i].t = t)

\* the rows of s at a set of labels that s contains, in ascending label order
Select(s, labels) ==
    LET idx == SortedSeq(labels)
    IN  Tuple([i \in 1..Len(idx) |-> s[At(s, idx[i])]])

\* Series.sort_index(): the same rows in ascending label order
SortIndex(s) == Select(s, Index(s))

\* mutant of AlignInner: join="right", the left Series is reindexed onto the
\* labels of the right one, missing where it has none
AlignRight(left, right) ==
    <<Tuple([i \in 1..Len(right) |->
          [t |-> right[i].t,
           v |-> IF right[i].t \in Index(left)
                 THEN left[At(left, right[i].t)].v ELSE NaN]]),
      right>>

\* mutant of AlignInner: the labels at which the left Series is missing are
\* dropped before the join
AlignInnerDefined(left, right) ==
    LET shared == {t \in Index(left) \cap Index(right) :
                      ~IsNaN(left[At(left, t)].v)}
    IN  <<Select(left, shared), Select(right, shared)>>

\* Series.align(other, join="inner"): both restricted to the shared labels
AlignInner(left, right) ==
    LET shared == Index(left) \cap Index(right)
    IN  <<Select(left, shared), Select(right, shared)>>

\* Series.shift(1)
Shift(s) ==
    Tuple([i \in 1..Len(s) |-> [t |-> s[i].t, v |-> IF i = 1 THEN NaN ELSE s[i - 1].v]])

\* mutant of ClipValue: the upper bound is not applied
ClipValueLowerOnly(x, lower, upper) ==
    IF IsNaN(x) THEN NaN
    ELSE IF RLt(x, lower) THEN lower
    ELSE x

\* Series.clip(lower, upper); a missing value stays missing
ClipValue(x, lower, upper) ==
    IF IsNaN(x) THEN NaN
    ELSE IF RLt(x, lower) THEN lower
    ELSE IF RLt(upper, x) THEN upper
    ELSE x

Clip(s, lower, upper) ==
    Tuple([i \in 1..Len(s) |-> [t |-> s[i].t, v |-> ClipValue(s[i].v, lower, upper)]])

\* mutant of PctChange: the change since the first label, not the previous one
PctChangeFromFirst(s) ==
    Tuple([i \in 1..Len(s) |->
        [t |-> s[i].t,
         v |-> IF i = 1 THEN NaN ELSE RSub(RDiv(s[i].v, s[1].v), Int2R(1))]])

\* Series.pct_change(): v(i)/v(i-1) - 1, missing at the first label
PctChange(s) ==
    Tuple([i \in 1..Len(s) |->
        [t |-> s[i].t,
         v |-> IF i = 1 THEN NaN
               ELSE RSub(RDiv(s[i].v, s[i - 1].v), Int2R(1))]])

\* Series.diff(): v(i) - v(i-1), missing at the first label
Diff(s) ==
    Tuple([i \in 1..Len(s) |->
        [t |-> s[i].t,
         v |-> IF i = 1 THEN NaN ELSE RSub(s[i].v, s[i - 1].v)]])

SAbs(s) == Tuple([i \in 1..Len(s) |-> [t |-> s[i].t, v |-> RAbs(s[i].v)]])

SFillNa(s, x) == Tuple([i \in 1..Len(s) |-> [t |-> s[i].t, v |-> FillNa(s[i].v, x)]])

\* elementwise product / difference of two Series over the same index
SMul(a, b) == Tuple([i \in 1..Len(a) |-> [t |-> a[i].t, v |-> RMul(a[i].v, b[i].v)]])

SSub(a, b) == Tuple([i \in 1..Len(a) |-> [t |-> a[i].t, v |-> RSub(a[i].v, b[i].v)]])

SScale(a, k) == Tuple([i \in 1..Len(a) |-> [t |-> a[i].t, v |-> RMul(a[i].v, k)]])

----------------------------------------------------------------------------
(* Backtester (qlib/backtesting/engine.py) *)

BasisPoints == 10000

\* mutant of BacktesterInit: max_position is checked with < instead of <=
BacktesterInitAllowsZero(prices, max_position, commission_bps) ==
    IF prices.kind # "Series"
    THEN [raised |-> "TypeError", msg |-> "prices must be a pandas Series",
          self |-> None]
    ELSE IF Len(prices.data) = 0
    THEN [raised |-> "ValueError",
          msg |-> "prices must contain at least one observation", self |-> None]
    ELSE IF RLt(max_position, Zero)
    THEN [raised |-> "ValueError", msg |-> "max_position must be positive",
          self |-> None]
    ELSE IF RLt(commission_bps, Zero)
    THEN [raised |-> "ValueError", msg |-> "commission_bps cannot be negative",
          self |-> None]
    ELSE [raised |-> "none", msg |-> "",
          self |-> [kind |-> "Backtester",
                    prices |-> SortIndex(prices.data),
                    max_position |-> max_position,
                    commission_bps |-> commission_bps]]

\* Backtester.__init__: validation, then prices.sort_index() and the two floats
BacktesterInit(prices, max_position, commission_bps) ==
    IF prices.kind # "Series"
    THEN [raised |-> "TypeError", msg |-> "prices must be a pandas Series",
          self |-> None]
    ELSE IF Len(prices.data) = 0
    THEN [raised |-> "ValueError",
          msg |-> "prices must contain at least one observation", self |-> None]
    ELSE IF RLe(max_position, Zero)
    THEN [raised |-> "ValueError", msg |-> "max_position must be positive",
          self |-> None]
    ELSE IF RLt(commission_bps, Zero)
    THEN [raised |-> "ValueError", msg |-> "commission_bps cannot be negative",
          self |-> None]
    ELSE [raised |-> "none", msg |-> "",
          self |-> [kind |-> "Backtester",
                    prices |-> SortIndex(prices.data),
                    max_position |-> max_position,
                    commission_bps |-> commission_bps]]

\* mutant of Positions: the signal is clamped but not lagged
PositionsNoLag(signal_aligned, max_position) ==
    Clip(signal_aligned, RNeg(max_position), max_position)

\* positions = signal_aligned.shift(1).clip(-max_position, max_position)
Positions(signal_aligned, max_position) ==
    Clip(Shift(signal_aligned), RNeg(max_position), max_position)

\* mutant of Returns: the price ratio, without subtracting 1
ReturnsRatio(prices_aligned) ==
    Tuple([i \in 1..Len(prices_aligned) |->
        [t |-> prices_aligned[i].t,
         v |-> IF i = 1 THEN NaN
               ELSE RDiv(prices_aligned[i].v, prices_aligned[i - 1].v)]])

\* returns = prices_aligned.pct_change()
Returns(prices_aligned) == PctChange(prices_aligned)

\* pnl = positions * returns
Pnl(positions, returns) == SMul(positions, returns)

\* mutant of Turnover: the signed change, without abs()
TurnoverSigned(positions) == SFillNa(Diff(positions), Zero)

\* mutant of Turnover: a missing position counts as a position of 0
TurnoverFromFlat(positions) ==
    SFillNa(SAbs(Diff(SFillNa(positions, Zero))), Zero)

\* turnover = positions.diff().abs().fillna(0.0)
Turnover(positions) == SFillNa(SAbs(Diff(positions)), Zero)

\* mutant of Costs: the rate is applied with the opposite sign
CostsNegated(turnover, commission_bps) ==
    SScale(turnover, RNeg(RDiv(commission_bps, Int2R(BasisPoints))))

\* costs = turnover * (commission_bps / 10_000.0)
Costs(turnover, commission_bps) ==
    SScale(turnover, RDiv(commission_bps, Int2R(BasisPoints)))

\* if self.commission_bps: pnl = pnl - costs
NetPnl(pnl, positions, commission_bps) ==
    IF commission_bps # Zero
    THEN SSub(pnl, Costs(Turnover(positions), commission_bps))
    ELSE pnl

\* mutant of BacktesterRun: the aligned prices are stored on the instance
\* (self.prices) instead of in a local, before the overlap check
BacktesterRunStoresAligned(self, signal) ==
    IF signal.kind # "Series"
    THEN [raised |-> "TypeError", msg |-> "signal must be a pandas Series",
          signal |-> signal, self |-> self, result |-> None,
          signal_aligned |-> <<>>, prices_aligned |-> <<>>,
          positions |-> <<>>, returns |-> <<>>]
    ELSE
    LET aligned   == AlignInner(signal.data, self.prices)
        positions == Positions(aligned[1], self.max_position)
        returns   == Returns(aligned[2])
        pnl       == NetPnl(Pnl(positions, returns), positions,
                            self.commission_bps)
        kept      == [self EXCEPT !.prices = aligned[2]]
    IN  IF Len(aligned[2]) = 0
        THEN [raised |-> "ValueError",
              msg |-> "signal and prices do not share any timestamps",
              signal |-> signal, self |-> kept, result |-> None,
              signal_aligned |-> aligned[1], prices_aligned |-> aligned[2],
              positions |-> <<>>, returns |-> <<>>]
        ELSE [raised |-> "none", msg |-> "",
              signal |-> signal, self |-> kept,
              result |-> [kind |-> "Series", name |-> "strategy_returns",
                          data |-> pnl],
              signal_aligned |-> aligned[1], prices_aligned |-> aligned[2],
              positions |-> positions, returns |-> returns]

\* Backtester.run: the outcome, the returned Series and the locals of the call;
\* self is the instance as the call leaves it (run assigns no attribute)
BacktesterRun(self, signal) ==
    IF signal.kind # "Series"
    THEN [raised |-> "TypeError", msg |-> "signal must be a pandas Series",
          signal |-> signal, self |-> self, result |-> None,
          signal_aligned |-> <<>>, prices_aligned |-> <<>>,
          positions |-> <<>>, returns |-> <<>>]
    ELSE
    LET aligned        == AlignInner(signal.data, self.prices)
        signal_aligned == aligned[1]
        prices_aligned == aligned[2]
        positions      == Positions(signal_aligned, self.max_position)
        returns        == Returns(prices_aligned)
        pnl            == NetPnl(Pnl(positions, returns), positions,
                                 self.commission_bps)
    IN  IF Len(prices_aligned) = 0
        THEN [raised |-> "ValueError",
              msg |-> "signal and prices do not share any timestamps",
              signal |-> signal, self |-> self, result |-> None,
              signal_aligned |-> signal_aligned,
              prices_aligned |-> prices_aligned,
              positions |-> <<>>, returns |-> <<>>]
        ELSE [raised |-> "none", msg |-> "",
              signal |-> signal, self |-> self,
              result |-> [kind |-> "Series", name |-> "strategy_returns",
                          data |-> pnl],
              signal_aligned |-> signal_aligned,
              prices_aligned |-> prices_aligned,
              positions |-> positions, returns |-> returns]

----------------------------------------------------------------------------
(* pandas DataFrame operations used by the portfolio simulator.  A frame is *)
(* [columns, rows], rows a sequence of [t, row] with row : columns -> value *)

FIndex(f) == {f.rows[i].t : i \in 1..Len(f.rows)}

FAt(f, t) == (CHOOSE i \in 1..Len(f.rows) : f.rows[i].t = t)

NaNRow(columns) == Func([c \in columns |-> NaN])

\* DataFrame.sort_index(): the same rows in ascending label order
FSortIndex(f) ==
    LET idx == SortedSeq(FIndex(f))
    IN  [f EXCEPT !.rows = Tuple([i \in 1..Len(idx) |-> f.rows[FAt(f, idx[i])]])]

\* DataFrame.shift(1)
FShift(f) ==
    [f EXCEPT !.rows =
        Tuple([i \in 1..Len(f.rows) |->
            [t |-> f.rows[i].t,
             row |-> IF i = 1 THEN NaNRow(f.columns) ELSE f.rows[i - 1].row]])]

\* mutant of FPctChange: the price change is not divided by the earlier price
FPctChangeAbsolute(f) ==
    [f EXCEPT !.rows =
        Tuple([i \in 1..Len(f.rows) |->
            [t |-> f.rows[i].t,
             row |-> Func([c \in f.columns |->
                        IF i = 1 THEN NaN
                        ELSE RSub(f.rows[i].row[c], f.rows[i - 1].row[c])])]])]

\* DataFrame.pct_change(), column by column
FPctChange(f) ==
    [f EXCEPT !.rows =
        Tuple([i \in 1..Len(f.rows) |->
            [t |-> f.rows[i].t,
             row |-> Func([c \in f.columns |->
                        IF i = 1 THEN NaN
                        ELSE RSub(RDiv(f.rows[i].row[c], f.rows[i - 1].row[c]),
                                  Int2R(1))])]])]

\* DataFrame.diff(), column by column
FDiff(f) ==
    [f EXCEPT !.rows =
        Tuple([i \in 1..Len(f.rows) |->
            [t |-> f.rows[i].t,
             row |-> Func([c \in f.columns |->
                        IF i = 1 THEN NaN
                        ELSE RSub(f.rows[i].row[c], f.rows[i - 1].row[c])])]])]

FAbs(f) ==
    [f EXCEPT !.rows =
        Tuple([i \in 1..Len(f.rows) |->
            [t |-> f.rows[i].t,
             row |-> Func([c \in f.columns |-> RAbs(f.rows[i].row[c])])]])]

\* DataFrame.fillna(x)
FFillNa(f, x) ==
    [f EXCEPT !.rows =
        Tuple([i \in 1..Len(f.rows) |->
            [t |-> f.rows[i].t,
             row |-> Func([c \in f.columns |-> FillNa(f.rows[i].row[c], x)])]])]

\* DataFrame.replace(old, new)
FReplace(f, old, new) ==
    [f EXCEPT !.rows =
        Tuple([i \in 1..Len(f.rows) |->
            [t |-> f.rows[i].t,
             row |-> Func([c \in f.columns |->
                        IF f.rows[i].row[c] = old THEN new
                        ELSE f.rows[i].row[c]])]])]

\* DataFrame.ffill(): a missing cell takes the latest defined value above it
FFill(f) ==
    [f EXCEPT !.rows =
        Tuple([i \in 1..Len(f.rows) |->
            [t |-> f.rows[i].t,
             row |-> Func([c \in f.columns |->
                        LET above == {j \in 1..i : ~IsNaN(f.rows[j].row[c])}
                        IN  IF above = {} THEN NaN
                            ELSE f.rows[Max(above)].row[c]])]])]

\* mutant of FReindex: the labels of the frame that index lacks are kept
FReindexUnion(f, index) ==
    LET idx == SortedSeq({index[k] : k \in 1..Len(index)} \cup FIndex(f))
    IN  [f EXCEPT !.rows =
            Tuple([i \in 1..Len(idx) |->
                [t |-> idx[i],
                 row |-> IF idx[i] \in FIndex(f)
                         THEN f.rows[FAt(f, idx[i])].row
                         ELSE NaNRow(f.columns)]])]

\* DataFrame.reindex(index): the row of each label of index, missing if absent
FReindex(f, index) ==
    [f EXCEPT !.rows =
        Tuple([i \in 1..Len(index) |->
            [t |-> index[i],
             row |-> IF index[i] \in FIndex(f)
                     THEN f.rows[FAt(f, index[i])].row
                     ELSE NaNRow(f.columns)]])]

\* a * b for two frames: rows and columns are aligned by label (the union of
\* the labels, in ascending order); a cell missing on either side is missing
\* in the product
FMul(a, b) ==
    LET idx == SortedSeq(FIndex(a) \cup FIndex(b))
    IN  [columns |-> a.columns \cup b.columns,
         rows |-> Tuple([i \in 1..Len(idx) |->
            [t |-> idx[i],
             row |-> Func([c \in a.columns \cup b.columns |->
                        IF /\ c \in a.columns /\ c \in b.columns
                           /\ idx[i] \in FIndex(a) /\ idx[i] \in FIndex(b)
                        THEN RMul(a.rows[FAt(a, idx[i])].row[c],
                                  b.rows[FAt(b, idx[i])].row[c])
                        ELSE NaN])]])]

\* sum of the defined values of a row (skipna; 0 when none is defined)
RECURSIVE SumSkipNa(_, _)
SumSkipNa(row, columns) ==
    IF columns = {} THEN Zero
    ELSE LET c == CHOOSE x \in columns : TRUE
         IN  RAdd(FillNa(row[c], Zero), SumSkipNa(row, columns \ {c}))

\* DataFrame.sum(axis=1)
RowSum(f) ==
    Tuple([i \in 1..Len(f.rows) |->
        [t |-> f.rows[i].t, v |-> SumSkipNa(f.rows[i].row, f.columns)]])

\* the index of a frame, in row order
IndexSeq(f) == Tuple([i \in 1..Len(f.rows) |-> f.rows[i].t])

----------------------------------------------------------------------------
(* Calendar periods of resample().  A timestamp counts the slots of           *)
(* 24/SlotsPerDay hours since 2024-01-01 00:00, a Monday.                     *)

DaysPerWeek == 7

MonthsPerQuarter == 3

\* the day of the year 2024 on which each month starts
MonthStarts == <<0, 31, 60, 91, 121, 152, 182, 213, 244, 274, 305, 335>>

DayOf(t) == t \div SlotsPerDay

\* "W" is W-SUN: weeks run Monday to Sunday
WeekOf(t) == DayOf(t) \div DaysPerWeek

MonthOf(t) ==
    Cardinality({k \in 1..Len(MonthStarts) : MonthStarts[k] <= DayOf(t)}) - 1

QuarterOf(t) == MonthOf(t) \div MonthsPerQuarter

\* mutant of PeriodOf: daily bins are as wide as weekly ones
PeriodOfWeekForDay(freq, t) ==
    CASE freq = "D"  -> WeekOf(t)
      [] freq = "W"  -> WeekOf(t)
      [] freq = "ME" -> MonthOf(t)
      [] freq = "QE" -> QuarterOf(t)

\* the resample bin of timestamp t under a frequency token
PeriodOf(freq, t) ==
    CASE freq = "D"  -> DayOf(t)
      [] freq = "W"  -> WeekOf(t)
      [] freq = "ME" -> MonthOf(t)
      [] freq = "QE" -> QuarterOf(t)

\* the missing timestamp
NaT == -1

\* mutant of BinFirst: the last timestamp of the bin, not the first
BinLast(index, freq, p) ==
    LET members == {i \in 1..Len(index) : PeriodOf(freq, index[i]) = p}
    IN  IF members = {} THEN NaT ELSE index[Max(members)]

\* .first() of one resample bin: its first timestamp, NaT for an empty bin
BinFirst(index, freq, p) ==
    LET members == {i \in 1..Len(index) : PeriodOf(freq, index[i]) = p}
    IN  IF members = {} THEN NaT ELSE index[Min(members)]

\* mutant of RebalanceDates: the empty bins are not dropped
RebalanceDatesKeepEmpty(index, freq) ==
    IF Len(index) = 0 THEN <<>>
    ELSE LET lo == PeriodOf(freq, index[1])
             hi == PeriodOf(freq, index[Len(index)])
         IN  Tuple([k \in 1..(hi - lo + 1) |-> BinFirst(index, freq, lo + k - 1)])

\* index.to_series().resample(freq).first().dropna(): one bin per period from
\* that of the first timestamp to that of the last, empty bins dropped
RebalanceDates(index, freq) ==
    IF Len(index) = 0 THEN <<>>
    ELSE LET lo     == PeriodOf(freq, index[1])
             hi     == PeriodOf(freq, index[Len(index)])
             firsts == Tuple([k \in 1..(hi - lo + 1) |-> BinFirst(index, freq, lo + k - 1)])
         IN  SelectSeq(firsts, LAMBDA d : d # NaT)

Range(q) == {q[i] : i \in 1..Len(q)}

----------------------------------------------------------------------------
(* PortfolioBacktester (qlib/backtesting/portfolio.py) *)

\* mutant of PortfolioInit: the column levels are checked before the table is
\* checked for emptiness
PortfolioInitColumnsFirst(prices, weights, rebalance_freq, commission_bps) ==
    IF prices.kind # "DataFrame"
    THEN [raised |-> "TypeError", msg |-> "prices must be a pandas DataFrame",
          self |-> None]
    ELSE IF prices.levels # 2
    THEN [raised |-> "TypeError",
          msg |-> "prices must have MultiIndex columns (symbol, field)",
          self |-> None]
    ELSE IF Len(prices.rows) = 0 \/ prices.columns = {}
    THEN [raised |-> "ValueError",
          msg |-> "prices must contain at least one observation", self |-> None]
    ELSE IF RLt(commission_bps, Zero)
    THEN [raised |-> "ValueError", msg |-> "commission_bps cannot be negative",
          self |-> None]
    ELSE [raised |-> "none", msg |-> "",
          self |-> [kind |-> "PortfolioBacktester",
                    prices |-> FSortIndex([columns |-> prices.columns,
                                           rows |-> prices.rows]),
                    rebalance_freq |-> rebalance_freq,
                    commission_bps |-> commission_bps,
                    symbols |-> prices.columns,
                    weights |-> IF weights = None
                                THEN Func([c \in prices.columns |->
                                        Rat(1, Cardinality(prices.columns))])
                                ELSE weights.map]]

\* PortfolioBacktester.__init__: validation, then the sorted prices, the
\* symbols of the first column level and the target weights
PortfolioInit(prices, weights, rebalance_freq, commission_bps) ==
    IF prices.kind # "DataFrame"
    THEN [raised |-> "TypeError", msg |-> "prices must be a pandas DataFrame",
          self |-> None]
    ELSE IF Len(prices.rows) = 0 \/ prices.columns = {}
    THEN [raised |-> "ValueError",
          msg |-> "prices must contain at least one observation", self |-> None]
    ELSE IF prices.levels # 2
    THEN [raised |-> "TypeError",
          msg |-> "prices must have MultiIndex columns (symbol, field)",
          self |-> None]
    ELSE IF RLt(commission_bps, Zero)
    THEN [raised |-> "ValueError", msg |-> "commission_bps cannot be negative",
          self |-> None]
    ELSE [raised |-> "none", msg |-> "",
          self |-> [kind |-> "PortfolioBacktester",
                    prices |-> FSortIndex([columns |-> prices.columns,
                                           rows |-> prices.rows]),
                    rebalance_freq |-> rebalance_freq,
                    commission_bps |-> commission_bps,
                    symbols |-> prices.columns,
                    weights |-> IF weights = None
                                THEN Func([c \in prices.columns |->
                                        Rat(1, Cardinality(prices.columns))])
                                ELSE weights.map]]

\* mutant of TargetRow: every symbol is given the whole capital
TargetRowWhole(self) == Func([c \in self.symbols |-> Int2R(1)])

\* weight_matrix.loc[date] = target: the Series is aligned to the columns, a
\* symbol without a key gets a missing value, a key without a column is dropped
TargetRow(self) ==
    Func([c \in self.symbols |->
        IF c \in DOMAIN self.weights THEN self.weights[c] ELSE NaN])

\* mutant of BuildRebalanceWeights: the zeros turned into missing values are
\* not turned back
BuildRebalanceWeightsUnfilled(self, index) ==
    LET dates    == RebalanceDates(index, self.rebalance_freq)
        assigned == [columns |-> self.symbols,
                     rows |-> Tuple([i \in 1..Len(index) |->
                        [t |-> index[i],
                         row |-> IF index[i] \in Range(dates)
                                 THEN TargetRow(self)
                                 ELSE Func([c \in self.symbols |-> Zero])]])]
    IN  [index |-> index,
         rebalance_dates |-> dates,
         weight_matrix |-> FFill(FReplace(assigned, Zero, NaN))]

\* PortfolioBacktester._build_rebalance_weights: the returned weight matrix and
\* the rebalance dates it was built from
BuildRebalanceWeights(self, index) ==
    LET dates    == RebalanceDates(index, self.rebalance_freq)
        assigned == [columns |-> self.symbols,
                     rows |-> Tuple([i \in 1..Len(index) |->
                        [t |-> index[i],
                         row |-> IF index[i] \in Range(dates)
                                 THEN TargetRow(self)
                                 ELSE Func([c \in self.symbols |-> Zero])]])]
    IN  [index |-> index,
         rebalance_dates |-> dates,
         weight_matrix |-> FFillNa(FFill(FReplace(assigned, Zero, NaN)), Zero)]

\* mutant of NormalizeRows: the divisor is the sum of the signed values
NormalizeRowsSigned(signals) ==
    FFillNa(
        [signals EXCEPT !.rows =
            Tuple([i \in 1..Len(signals.rows) |->
                [t |-> signals.rows[i].t,
                 row |-> Func([c \in signals.columns |->
                            RDiv(signals.rows[i].row[c],
                                 SumSkipNa(signals.rows[i].row,
                                           signals.columns))])]])],
        Zero)

\* signals.div(signals.abs().sum(axis=1), axis=0).fillna(0)
NormalizeRows(signals) ==
    FFillNa(
        [signals EXCEPT !.rows =
            Tuple([i \in 1..Len(signals.rows) |->
                [t |-> signals.rows[i].t,
                 row |-> Func([c \in signals.columns |->
                            RDiv(signals.rows[i].row[c],
                                 SumSkipNa(FAbs(signals).rows[i].row,
                                           signals.columns))])]])],
        Zero)

\* mutant of SignalWeights: the gaps are not forward-filled
SignalWeightsNoFill(signals, index) ==
    FFillNa(FReindex(NormalizeRows(signals), index), Zero)

\* the weight matrix of signal-override mode
SignalWeights(signals, index) ==
    FFillNa(FFill(FReindex(NormalizeRows(signals), index)), Zero)

\* mutant of PortfolioTurnover: the signed changes are summed, without abs()
PortfolioTurnoverSigned(positions) == SFillNa(RowSum(FDiff(positions)), Zero)

\* mutant of PortfolioTurnover: a missing position counts as a position of 0
PortfolioTurnoverFromFlat(positions) ==
    SFillNa(RowSum(FAbs(FDiff(FFillNa(positions, Zero)))), Zero)

\* turnover = positions.diff().abs().sum(axis=1).fillna(0.0)
PortfolioTurnover(positions) == SFillNa(RowSum(FAbs(FDiff(positions))), Zero)

\* if self.commission_bps: portfolio_returns = portfolio_returns - costs
PortfolioNet(portfolio_returns, positions, commission_bps) ==
    IF commission_bps # Zero
    THEN SSub(portfolio_returns,
              Costs(PortfolioTurnover(positions), commission_bps))
    ELSE portfolio_returns

\* mutant of PortfolioPositions: the weights are not lagged
PortfolioPositionsNoLag(weight_matrix) == weight_matrix

\* positions = weight_matrix.shift(1)
PortfolioPositions(weight_matrix) == FShift(weight_matrix)

\* portfolio_returns = (positions * asset_returns).sum(axis=1)
PortfolioReturns(positions, asset_returns) ==
    RowSum(FMul(positions, asset_returns))

\* PortfolioBacktester.run: the returned Series and the locals of the call;
\* self is the instance as the call leaves it (run assigns no attribute)
PortfolioRun(self, signals) ==
    LET close_prices  == self.prices
        asset_returns == FPctChange(close_prices)
        weight_matrix ==
            IF signals # None
            THEN SignalWeights(signals, IndexSeq(asset_returns))
            ELSE BuildRebalanceWeights(self, IndexSeq(asset_returns)).weight_matrix
        positions     == PortfolioPositions(weight_matrix)
        net           == PortfolioNet(PortfolioReturns(positions, asset_returns),
                                      positions, self.commission_bps)
    IN  [raised |-> "none", signals |-> signals, self |-> self,
         asset_returns |-> asset_returns,
         weight_matrix |-> weight_matrix,
         positions |-> positions,
         result |-> [kind |-> "Series", name |-> "portfolio_returns",
                     data |-> net]]

----------------------------------------------------------------------------
(* Inputs of the single-asset simulator *)

Stamps == 1..MaxT

\* prices are positive
PriceVals == {Int2R(1), Int2R(2)}

\* signal values: below -max_position, inside the bounds, above, and missing
SignalVals == {Int2R(-2), Int2R(1), NaN}

Distinct(s) == \A i, j \in 1..Len(s) : i # j => s[i].t # s[j].t

Increasing(s) == \A i, j \in 1..Len(s) : i < j => s[i].t < s[j].t

SeqsUpTo(S, n) == UNION {[1..k -> S] : k \in 0..n}

\* price Series in any row order (the constructor sorts them), or no Series
PriceArgs ==
    {[kind |-> "list", data |-> <<>>]} \cup
    {[kind |-> "Series", data |-> s] :
        s \in {x \in SeqsUpTo([t : Stamps, v : PriceVals], MaxT) : Distinct(x)}}

MaxPositionArgs == {Zero, Rat(1, 2), Int2R(3)}

CommissionArgs == {Int2R(-1), Zero, Int2R(10)}

\* signal Series over an increasing timeline, or no Series
SignalArgs ==
    {[kind |-> "list", data |-> <<>>]} \cup
    {[kind |-> "Series", data |-> s] :
        s \in {x \in SeqsUpTo([t : Stamps, v : SignalVals], MaxT) : Increasing(x)}}

----------------------------------------------------------------------------
(* The single-asset simulator as a state machine *)

\* the latest run returned a result
Ran == call # None /\ call.raised = "none"

Init ==
    /\ bt = None
    /\ ctor = None
    /\ call = None
    /\ nfail = FALSE
    /\ pf = None
    /\ pctor = None
    /\ pcall = None
    /\ rw = None
    /\ thr = [i \in 1..MaxThreads |-> [pc |-> "idle"]]
    /\ ld = None
    /\ mcall = None

\* bt = Backtester(prices, max_position=..., commission_bps=...)
Construct ==
    /\ ctor = None
    /\ \E prices \in PriceArgs, max_position \in MaxPositionArgs,
          commission_bps \in CommissionArgs :
          LET o == BacktesterInit(prices, max_position, commission_bps)
          IN  /\ bt' = o.self
              /\ ctor' = [prices_kind |-> prices.kind,
                          prices_len |-> Len(prices.data),
                          max_position |-> max_position,
                          commission_bps |-> commission_bps,
                          raised |-> o.raised, msg |-> o.msg, self |-> o.self]
    /\ UNCHANGED <<call, nfail>>
    /\ UNCHANGED pfvars
    /\ UNCHANGED othervars

\* bt.run(signal): the caller runs the instance, and again after a run raised
Run ==
    /\ bt # None
    /\ ~Ran
    /\ \E signal \in SignalArgs :
          LET o == BacktesterRun(bt, signal)
          IN  /\ call' = o
              /\ bt' = o.self
              /\ nfail' = (nfail \/ o.raised # "none")
    /\ UNCHANGED ctor
    /\ UNCHANGED pfvars
    /\ UNCHANGED othervars

Next == Construct \/ Run

Spec == Init /\ [][Next]_vars

----------------------------------------------------------------------------
(* Inputs of the portfolio simulator *)

\* timestamps of the price tables: from the afternoon of 2024-01-31 on
PStamps == {60 + k : k \in 1..MaxP}

\* frames of at most n rows, in any row order, over distinct timestamps
Frames(columns, stamps, rowset, n) ==
    {[columns |-> columns, rows |-> r] :
        r \in {x \in SeqsUpTo([t : stamps, row : rowset], n) : Distinct(x)}}

AsPrices(frame, levels) ==
    [kind |-> "DataFrame", levels |-> levels,
     columns |-> frame.columns, rows |-> frame.rows]

\* what is not a usable price table: no DataFrame, an empty one with flat or
\* two-level columns, one without the (symbol, field) column levels
BadPriceTables ==
    {[kind |-> "Series", levels |-> 1, columns |-> {}, rows |-> <<>>],
     [kind |-> "DataFrame", levels |-> 1, columns |-> {}, rows |-> <<>>],
     [kind |-> "DataFrame", levels |-> 2, columns |-> {"A", "B"}, rows |-> <<>>],
     [kind |-> "DataFrame", levels |-> 1, columns |-> {"A"},
      rows |-> <<[t |-> 61, row |-> [c \in {"A"} |-> Int2R(1)]]>>]}

\* price tables (close per symbol) in any row order
PriceTables ==
    BadPriceTables \cup
    {AsPrices(f, 2) :
        f \in Frames({"A", "B"}, PStamps, [{"A", "B"} -> PriceVals], MaxP) \cup
              Frames({"A"}, PStamps, [{"A"} -> PriceVals], MaxP)}

Dict(map) == [kind |-> "dict", map |-> map]

\* weights=None, dicts over the symbols A, B (one with a zero target), a dict
\* that lacks B and a dict with the unknown symbol C
WeightArgs ==
    {None,
     Dict([c \in {"A", "B"} |-> IF c = "A" THEN Rat(3, 4) ELSE Rat(1, 4)]),
     Dict([c \in {"A", "B"} |-> IF c = "A" THEN Int2R(1) ELSE Zero]),
     Dict([c \in {"A"} |-> Int2R(1)]),
     Dict([c \in {"A", "B", "C"} |-> IF c = "A" THEN Rat(1, 2) ELSE Rat(1, 4)])}

Freqs == {"D", "W", "ME", "QE"}

----------------------------------------------------------------------------
(* The portfolio simulator in static target mode *)

ConstructFrom(tables, weightArgs, freqs, commissions) ==
    /\ pctor = None
    /\ \E prices \in tables, weights \in weightArgs, rebalance_freq \in freqs,
          commission_bps \in commissions :
          LET o == PortfolioInit(prices, weights, rebalance_freq, commission_bps)
          IN  /\ pf' = o.self
              /\ pctor' = [prices_kind |-> prices.kind,
                           prices_levels |-> prices.levels,
                           prices_columns |-> prices.columns,
                           prices_len |-> Len(prices.rows),
                           weights |-> weights,
                           rebalance_freq |-> rebalance_freq,
                           commission_bps |-> commission_bps,
                           raised |-> o.raised, msg |-> o.msg, self |-> o.self]
    /\ UNCHANGED <<pcall, rw>>
    /\ UNCHANGED btvars
    /\ UNCHANGED othervars

RunFrom(signalArgs) ==
    /\ pf # None
    /\ \E signals \in signalArgs :
          LET o == PortfolioRun(pf, signals)
          IN  /\ pcall' = o
              /\ pf' = o.self
    /\ UNCHANGED <<pctor, rw>>
    /\ UNCHANGED btvars
    /\ UNCHANGED othervars

\* pf = PortfolioBacktester(prices, weights, rebalance_freq, commission_bps)
PConstruct == ConstructFrom(PriceTables, WeightArgs, Freqs, CommissionArgs)

\* pf.run()
PRun == RunFrom({None})

NextPF == PConstruct \/ PRun

SpecPF == Init /\ [][NextPF]_vars

----------------------------------------------------------------------------
(* The portfolio simulator built with its defaults and run with signals *)

Row(a, b) == [c \in {"A", "B"} |-> IF c = "A" THEN a ELSE b]

SigPriceRows == {Row(Int2R(1), Int2R(2)), Row(Int2R(2), Int2R(1))}

SigPriceTables ==
    {AsPrices(f, 2) : f \in Frames({"A", "B"}, PStamps, SigPriceRows, MaxP)}

\* signal rows: equal, all zero, long/short, and one with a missing value
SignalRows == {Row(Int2R(1), Int2R(1)), Row(Zero, Zero),
               Row(Int2R(-1), Int2R(3)), Row(NaN, Int2R(2))}

\* signal tables over an increasing timeline
SignalFrames ==
    {f \in Frames({"A", "B"}, PStamps, SignalRows, MaxP) : Increasing(f.rows)}

\* pf = PortfolioBacktester(prices, commission_bps=...)
SigConstruct ==
    ConstructFrom(SigPriceTables, {None}, {"ME"}, {Zero, Int2R(10)})

\* pf.run(signals) or pf.run(), once per instance
SigRun == pcall = None /\ RunFrom({None} \cup SignalFrames)

NextSig == SigConstruct \/ SigRun

SpecSig == Init /\ [][NextSig]_vars

----------------------------------------------------------------------------
(* Either simulator, constructed and run: a caller works with one of the two *)

NextEither ==
    \/ (pctor = None /\ Next)
    \/ (ctor = None /\ NextSig)

SpecEither == Init /\ [][NextEither]_vars

----------------------------------------------------------------------------
(* _build_rebalance_weights called on a timeline, as the tests call it *)

\* 2024-01-01 (twice), 01-07, 01-08, 01-31, 02-01 (twice), 03-31, 04-01
RWStamps == {0, 1, 12, 14, 61, 62, 63, 181, 182}

Timelines ==
    {SortedSeq(S) : S \in {X \in SUBSET RWStamps :
                              Cardinality(X) >= 1 /\ Cardinality(X) <= MaxLen}}

\* one-row price tables over one, two and three symbols
RWPriceTables ==
    {AsPrices([columns |-> S,
               rows |-> <<[t |-> 61, row |-> [c \in S |-> Int2R(1)]]>>], 2) :
        S \in {{"A"}, {"A", "B"}, {"A", "B", "C"}}}

RWConstruct == ConstructFrom(RWPriceTables, WeightArgs, Freqs, {Zero})

\* pf._build_rebalance_weights(index), once per instance
RWBuild ==
    /\ pf # None
    /\ rw = None
    /\ \E index \in Timelines : rw' = BuildRebalanceWeights(pf, index)
    /\ UNCHANGED <<pf, pctor, pcall>>
    /\ UNCHANGED btvars
    /\ UNCHANGED othervars

NextRW == RWConstruct \/ RWBuild

SpecRW == Init /\ [][NextRW]_vars

----------------------------------------------------------------------------
(* Several caller threads run one instance.  A run is split where it reads   *)
(* the instance: its locals live in the thread, the instance is shared        *)

Threads == 1..MaxThreads

\* mutant of AlignStep: the aligned prices are kept on the instance
AlignStepStoresAligned(self, signal) ==
    LET aligned == AlignInner(signal.data, self.prices)
    IN  [self |-> [self EXCEPT !.prices = aligned[2]],
         signal |-> signal,
         signal_aligned |-> aligned[1], prices_aligned |-> aligned[2]]

\* signal_aligned, prices_aligned = signal.align(self.prices, join="inner"):
\* the two locals, and the instance and the signal as the statement leaves them
AlignStep(self, signal) ==
    LET aligned == AlignInner(signal.data, self.prices)
    IN  [self |-> self, signal |-> signal,
         signal_aligned |-> aligned[1], prices_aligned |-> aligned[2]]

\* a short price Series in and out of order
ParPriceArgs ==
    {[kind |-> "Series",
      data |-> <<[t |-> 1, v |-> Int2R(1)], [t |-> 2, v |-> Int2R(2)],
                 [t |-> 3, v |-> Int2R(1)]>>],
     [kind |-> "Series",
      data |-> <<[t |-> 2, v |-> Int2R(1)], [t |-> 1, v |-> Int2R(2)]>>]}

\* no Series, a signal on every price timestamp, one on a part of them, one
\* with a missing value, one on a foreign timeline
ParSignalArgs ==
    {[kind |-> "list", data |-> <<>>],
     [kind |-> "Series",
      data |-> <<[t |-> 1, v |-> Int2R(-2)], [t |-> 2, v |-> Int2R(1)],
                 [t |-> 3, v |-> Int2R(-2)]>>],
     [kind |-> "Series",
      data |-> <<[t |-> 1, v |-> Int2R(1)], [t |-> 3, v |-> Int2R(-2)]>>],
     [kind |-> "Series",
      data |-> <<[t |-> 1, v |-> NaN], [t |-> 2, v |-> Int2R(1)]>>],
     [kind |-> "Series", data |-> <<[t |-> 0, v |-> Int2R(1)]>>]}

ParPriceTables ==
    {AsPrices([columns |-> {"A", "B"},
               rows |-> <<[t |-> 61, row |-> Row(Int2R(1), Int2R(2))],
                          [t |-> 62, row |-> Row(Int2R(2), Int2R(1))],
                          [t |-> 63, row |-> Row(Int2R(1), Int2R(1))]>>], 2),
     AsPrices([columns |-> {"A", "B"},
               rows |-> <<[t |-> 62, row |-> Row(Int2R(1), Int2R(2))],
                          [t |-> 61, row |-> Row(Int2R(2), Int2R(2))]>>], 2)}

ParSignalFrames ==
    {[columns |-> {"A", "B"},
      rows |-> <<[t |-> 61, row |-> Row(Int2R(-1), Int2R(3))],
                 [t |-> 62, row |-> Row(Int2R(1), Int2R(1))],
                 [t |-> 63, row |-> Row(Zero, Zero)]>>],
     [columns |-> {"A", "B"},
      rows |-> <<[t |-> 61, row |-> Row(NaN, Int2R(2))],
                 [t |-> 63, row |-> Row(Int2R(1), Int2R(1))]>>]}

Done(i, raised, msg, result) ==
    [thr[i] EXCEPT !.pc = "done", !.raised = raised, !.msg = msg,
                   !.result = result]

\* bt = Backtester(prices, max_position=..., commission_bps=...)
ParConstruct ==
    /\ ctor = None
    /\ pctor = None
    /\ \E prices \in ParPriceArgs, max_position \in {Rat(1, 2), Int2R(3)},
          commission_bps \in {Zero, Int2R(10)} :
          LET o == BacktesterInit(prices, max_position, commission_bps)
          IN  /\ bt' = o.self
              /\ ctor' = [prices_kind |-> prices.kind,
                          prices_len |-> Len(prices.data),
                          max_position |-> max_position,
                          commission_bps |-> commission_bps,
                          raised |-> o.raised, msg |-> o.msg, self |-> o.self]
    /\ UNCHANGED <<call, nfail, thr, ld, mcall>>
    /\ UNCHANGED pfvars

\* a thread calls bt.run(signal)
StartRun(i) ==
    /\ bt # None
    /\ thr[i].pc = "idle"
    /\ \E signal \in ParSignalArgs :
          thr' = [thr EXCEPT ![i] =
                    [pc |-> "align", sim |-> "Backtester", arg |-> signal,
                     signal |-> signal, locals |-> None,
                     raised |-> "none", msg |-> "", result |-> None]]
    /\ UNCHANGED <<bt, ctor, call, nfail, ld, mcall>>
    /\ UNCHANGED pfvars

\* the type check, the alignment and the overlap check of Backtester.run
StepAlign(i) ==
    /\ thr[i].pc = "align"
    /\ IF thr[i].signal.kind # "Series"
       THEN /\ thr' = [thr EXCEPT ![i] =
                         Done(i, "TypeError", "signal must be a pandas Series",
                              None)]
            /\ bt' = bt
       ELSE LET o == AlignStep(bt, thr[i].signal)
            IN  /\ bt' = o.self
                /\ thr' = [thr EXCEPT ![i] =
                      IF Len(o.prices_aligned) = 0
                      THEN [Done(i, "ValueError",
                                 "signal and prices do not share any timestamps",
                                 None) EXCEPT !.signal = o.signal]
                      ELSE [thr[i] EXCEPT
                              !.pc = "positions", !.signal = o.signal,
                              !.locals = [signal_aligned |-> o.signal_aligned,
                                          prices_aligned |-> o.prices_aligned]]]
    /\ UNCHANGED <<ctor, call, nfail, ld, mcall>>
    /\ UNCHANGED pfvars

\* positions, returns and pnl of Backtester.run
StepPositions(i) ==
    /\ thr[i].pc = "positions"
    /\ LET positions == Positions(thr[i].locals.signal_aligned, bt.max_position)
           returns   == Returns(thr[i].locals.prices_aligned)
       IN  thr' = [thr EXCEPT ![i] =
                     [thr[i] EXCEPT !.pc = "costs",
                                    !.locals = [positions |-> positions,
                                                pnl |-> Pnl(positions, returns)]]]
    /\ UNCHANGED <<bt, ctor, call, nfail, ld, mcall>>
    /\ UNCHANGED pfvars

\* the commission branch of Backtester.run, the name, the return
StepCosts(i) ==
    /\ thr[i].pc = "costs"
    /\ thr' = [thr EXCEPT ![i] =
                 Done(i, "none", "",
                      [kind |-> "Series", name |-> "strategy_returns",
                       data |-> NetPnl(thr[i].locals.pnl, thr[i].locals.positions,
                                       bt.commission_bps)])]
    /\ UNCHANGED <<bt, ctor, call, nfail, ld, mcall>>
    /\ UNCHANGED pfvars

\* pf = PortfolioBacktester(prices, weights, rebalance_freq, commission_bps)
ParPConstruct ==
    /\ ctor = None
    /\ ConstructFrom(ParPriceTables,
                     {None, Dict(Row(Rat(3, 4), Rat(1, 4)))},
                     {"D", "ME"}, {Zero, Int2R(10)})

\* a thread calls pf.run(signals) or pf.run()
PStartRun(i) ==
    /\ pf # None
    /\ thr[i].pc = "idle"
    /\ \E signals \in {None} \cup ParSignalFrames :
          thr' = [thr EXCEPT ![i] =
                    [pc |-> "returns", sim |-> "PortfolioBacktester",
                     arg |-> signals, signal |-> signals, locals |-> None,
                     raised |-> "none", msg |-> "", result |-> None]]
    /\ UNCHANGED <<pf, pctor, pcall, rw, ld, mcall>>
    /\ UNCHANGED btvars

\* close_prices and asset_returns of PortfolioBacktester.run
PStepReturns(i) ==
    /\ thr[i].pc = "returns"
    /\ thr' = [thr EXCEPT ![i] =
                 [thr[i] EXCEPT !.pc = "weights",
                                !.locals = [asset_returns |->
                                                FPctChange(pf.prices)]]]
    /\ UNCHANGED <<pf, pctor, pcall, rw, ld, mcall>>
    /\ UNCHANGED btvars

\* weight_matrix, positions and portfolio_returns of PortfolioBacktester.run
PStepWeights(i) ==
    /\ thr[i].pc = "weights"
    /\ LET asset_returns == thr[i].locals.asset_returns
           weight_matrix ==
               IF thr[i].signal # None
               THEN SignalWeights(thr[i].signal, IndexSeq(asset_returns))
               ELSE BuildRebalanceWeights(pf, IndexSeq(asset_returns))
                        .weight_matrix
           positions == PortfolioPositions(weight_matrix)
       IN  thr' = [thr EXCEPT ![i] =
                     [thr[i] EXCEPT
                        !.pc = "pcosts",
                        !.locals = [positions |-> positions,
                                    portfolio_returns |->
                                        PortfolioReturns(positions,
                                                         asset_returns)]]]
    /\ UNCHANGED <<pf, pctor, pcall, rw, ld, mcall>>
    /\ UNCHANGED btvars

\* the commission branch of PortfolioBacktester.run, the name, the return
PStepCosts(i) ==
    /\ thr[i].pc = "pcosts"
    /\ thr' = [thr EXCEPT ![i] =
                 Done(i, "none", "",
                      [kind |-> "Series", name |-> "portfolio_returns",
                       data |-> PortfolioNet(thr[i].locals.portfolio_returns,
                                             thr[i].locals.positions,
                                             pf.commission_bps)])]
    /\ UNCHANGED <<pf, pctor, pcall, rw, ld, mcall>>
    /\ UNCHANGED btvars

\* the caller takes the result (or the exception); the thread may call again
Finish(i) ==
    /\ thr[i].pc = "done"
    /\ thr' = [thr EXCEPT ![i] = [pc |-> "idle"]]
    /\ UNCHANGED <<ld, mcall>>
    /\ UNCHANGED btvars
    /\ UNCHANGED pfvars

NextPar ==
    \/ ParConstruct
    \/ ParPConstruct
    \/ \E i \in Threads : StartRun(i)
    \/ \E i \in Threads : StepAlign(i)
    \/ \E i \in Threads : StepPositions(i)
    \/ \E i \in Threads : StepCosts(i)
    \/ \E i \in Threads : PStartRun(i)
    \/ \E i \in Threads : PStepReturns(i)
    \/ \E i \in Threads : PStepWeights(i)
    \/ \E i \in Threads : PStepCosts(i)
    \/ \E i \in Threads : Finish(i)

SpecPar == Init /\ [][NextPar]_vars

----------------------------------------------------------------------------
(* DataLoader (qlib/data/loader.py).  A table is [multi, index_name,          *)
(* columns, rows]: columns a sequence of labels (tuples of strings when the   *)
(* columns are a MultiIndex), rows a sequence of [idx, cells], cells in the   *)
(* order of the columns                                                        *)

\* str.strip() on the labels that occur
Strip(text) ==
    CASE text = " Close " -> "Close"
      [] text = " "       -> ""
      [] OTHER            -> text

\* str.lower() on the labels that occur
Lower(text) ==
    CASE text = "Date"      -> "date"
      [] text = "Datetime"  -> "datetime"
      [] text = "Open"      -> "open"
      [] text = "High"      -> "high"
      [] text = "Low"       -> "low"
      [] text = "Close"     -> "close"
      [] text = " Close "   -> " close "
      [] text = "Volume"    -> "volume"
      [] text = "Adj Close" -> "adj close"
      [] text = "AAPL"      -> "aapl"
      [] OTHER              -> text

\* the strings pd.to_datetime accepts; it raises ValueError on any other
Parsable(text) == text \in {"2024-01-02", "2024-01-03", "2024-01-04"}

\* pd.to_datetime of one value: the day it denotes
ParseDate(text) ==
    CASE text = "2024-01-02" -> 1
      [] text = "2024-01-03" -> 2
      [] text = "2024-01-04" -> 3
      [] OTHER               -> NaT

REQUIRED_COLUMNS == <<"open", "high", "low", "close", "volume">>

\* the first position of a label among the columns, 0 if it is none of them
Position(columns, label) ==
    LET at == {k \in 1..Len(columns) : columns[k] = label}
    IN  IF at = {} THEN 0 ELSE Min(at)

\* DataFrame.empty
Empty(df) == Len(df.rows) = 0 \/ Len(df.columns) = 0

\* DataLoader._first_non_empty_label, for the tuple label of a MultiIndex
FirstNonEmptyLabel(label) ==
    LET filled == {k \in 1..Len(label) : Strip(label[k]) # ""}
    IN  IF filled = {} THEN "" ELSE Strip(label[Min(filled)])

\* DataLoader._flatten_columns
FlattenColumns(df) ==
    IF df.multi
    THEN [df EXCEPT !.multi = FALSE,
                    !.columns = Tuple([k \in 1..Len(df.columns) |->
                                    FirstNonEmptyLabel(df.columns[k])])]
    ELSE df

\* the frame indexed by the parsed values of one of its columns, or the
\* ValueError of pd.to_datetime; drop tells whether set_index removes the column
IndexedBy(df, k, drop) ==
    IF \E i \in 1..Len(df.rows) : ~Parsable(df.rows[i].cells[k])
    THEN [raised |-> "ValueError", msg |-> "Unknown datetime string format",
          frame |-> None]
    ELSE [raised |-> "none", msg |-> "",
          frame |->
            [df EXCEPT
               !.index_name = "datetime",
               !.columns = IF drop
                           THEN SelectSeq(df.columns,
                                          LAMBDA c : c # df.columns[k])
                           ELSE df.columns,
               !.rows = Tuple([i \in 1..Len(df.rows) |->
                   [idx |-> ParseDate(df.rows[i].cells[k]),
                    cells |-> IF drop
                              THEN Tuple([j \in 1..(Len(df.columns) - 1) |->
                                       df.rows[i].cells[IF j < k THEN j
                                                        ELSE j + 1]])
                              ELSE df.rows[i].cells]])]]

\* DataLoader._ensure_datetime_index
EnsureDatetimeIndex(df) ==
    IF df.index_name = "datetime"
    THEN IF \E i \in 1..Len(df.rows) : ~Parsable(df.rows[i].idx)
         THEN [raised |-> "ValueError",
               msg |-> "Unknown datetime string format", frame |-> None]
         ELSE [raised |-> "none", msg |-> "",
               frame |-> [df EXCEPT !.rows =
                   Tuple([i \in 1..Len(df.rows) |->
                       [df.rows[i] EXCEPT !.idx = ParseDate(df.rows[i].idx)]])]]
    ELSE IF Position(df.columns, "datetime") # 0
    THEN IndexedBy(df, Position(df.columns, "datetime"), TRUE)
    ELSE LET possible_cols == {k \in 1..Len(df.columns) :
                                  Lower(df.columns[k]) \in {"date", "datetime"}}
         IN  IF possible_cols # {}
             THEN IndexedBy(df, Min(possible_cols), FALSE)
             ELSE [raised |-> "ValueError",
                   msg |-> "Data frame must include a datetime column or index.",
                   frame |-> None]

\* DataLoader._standardize_columns
StandardizeColumns(df) ==
    LET normalized == Tuple([k \in 1..Len(df.columns) |->
                          Lower(Strip(df.columns[k]))])
        missing    == {j \in 1..Len(REQUIRED_COLUMNS) :
                          Position(normalized, REQUIRED_COLUMNS[j]) = 0}
    IN  IF missing # {}
        THEN [raised |-> "ValueError", msg |-> "Missing required OHLCV columns",
              frame |-> None]
        ELSE [raised |-> "none", msg |-> "",
              frame |->
                [df EXCEPT
                   !.columns = REQUIRED_COLUMNS,
                   !.rows = Tuple([i \in 1..Len(df.rows) |->
                       [idx |-> df.rows[i].idx,
                        cells |-> Tuple([j \in 1..Len(REQUIRED_COLUMNS) |->
                            df.rows[i].cells[Position(normalized,
                                                      REQUIRED_COLUMNS[j])]])]])]]

\* DataLoader._sort_by_date: rows in ascending index order, rows of one date
\* in their earlier order
SortByDate(df) ==
    LET n == Len(df.rows)
        Before(a, b) == \/ df.rows[a].idx < df.rows[b].idx
                        \/ df.rows[a].idx = df.rows[b].idx /\ a < b
        Placed(p) == CHOOSE k \in 1..n :
                        Cardinality({a \in 1..n : Before(a, k)}) = p - 1
    IN  [df EXCEPT !.rows = Tuple([p \in 1..n |-> df.rows[Placed(p)]])]

\* DataLoader._drop_nas: the rows without a missing cell
DropNas(df) ==
    [df EXCEPT !.rows =
        SelectSeq(df.rows,
                  LAMBDA r : \A j \in 1..Len(r.cells) : ~IsNaN(r.cells[j]))]

\* DataLoader._clean: the cleaned table, or the ValueError of a step
Clean(df) ==
    LET indexed == EnsureDatetimeIndex(FlattenColumns(df))
    IN  IF indexed.raised # "none" THEN indexed
        ELSE LET standard == StandardizeColumns(indexed.frame)
             IN  IF standard.raised # "none" THEN standard
                 ELSE [raised |-> "none", msg |-> "",
                       frame |-> DropNas(SortByDate(standard.frame))]

\* DataLoader._read_csv_source: what pd.read_csv does at the path or URL is
\* given by read; the four exceptions and an empty table give None
ReadCsvSource(read) ==
    IF read.kind = "raise"
    THEN IF read.exc \in {"FileNotFoundError", "OSError", "ParserError",
                          "EmptyDataError"}
         THEN [raised |-> "none", frame |-> None]
         ELSE [raised |-> read.exc, frame |-> None]
    ELSE IF Empty(read.frame) THEN [raised |-> "none", frame |-> None]
    ELSE [raised |-> "none", frame |-> read.frame]

\* DataFrame.reset_index(): the index becomes the first column
ResetIndex(df) ==
    [df EXCEPT
       !.index_name = "",
       !.columns = <<IF df.multi THEN <<df.index_name, "">>
                     ELSE df.index_name>> \o df.columns,
       !.rows = Tuple([i \in 1..Len(df.rows) |->
                   [idx |-> i - 1,
                    cells |-> <<df.rows[i].idx>> \o df.rows[i].cells]])]

\* DataLoader._from_yfinance: yf tells whether the module can be imported and
\* what download returns
FromYfinance(symbol, yf) ==
    IF symbol = "" THEN [raised |-> "none", frame |-> None]
    ELSE IF ~yf.installed THEN [raised |-> "ImportError", frame |-> None]
    ELSE IF Empty(yf.frame) THEN [raised |-> "none", frame |-> None]
    ELSE [raised |-> "none", frame |-> ResetIndex(yf.frame)]

\* a str argument
Str(text) == [kind |-> "str", text |-> text]

\* the truth value of an Optional[str]: neither None nor empty
Truthy(arg) == arg # None /\ arg.text # ""

\* mutant of Loaders: yfinance is asked before the URL
LoadersYfinanceFirst(filepath, url) ==
    (IF Truthy(filepath) THEN <<"csv">> ELSE <<>>)
        \o <<"yfinance">>
        \o (IF Truthy(url) THEN <<"url">> ELSE <<>>)

\* the getters load appends, in order
Loaders(filepath, url) ==
    (IF Truthy(filepath) THEN <<"csv">> ELSE <<>>)
        \o (IF Truthy(url) THEN <<"url">> ELSE <<>>)
        \o <<"yfinance">>

\* frame = getter()
Getter(name, symbol, world) ==
    CASE name = "csv"      -> ReadCsvSource(world.file)
      [] name = "url"      -> ReadCsvSource(world.url)
      [] name = "yfinance" -> FromYfinance(symbol, world.yfinance)

----------------------------------------------------------------------------
(* DataLoader.load, one step per source.  ld holds the call: its arguments,   *)
(* what each source would give (world), the getters, the position in the      *)
(* loop, last_error, the sources consulted so far and the outcome              *)

\* a table as pd.read_csv returns it: a RangeIndex and the named columns
CsvTable(columns, rows) ==
    [multi |-> FALSE, index_name |-> "", columns |-> columns,
     rows |-> Tuple([i \in 1..Len(rows) |-> [idx |-> i - 1, cells |-> rows[i]]])]

\* what yf.download returns: tuple labels, the dates as an index named Date
YfTable(fields, base) ==
    [multi |-> TRUE, index_name |-> "Date",
     columns |-> Tuple([k \in 1..Len(fields) |-> <<fields[k], "AAPL">>]),
     rows |-> <<[idx |-> "2024-01-02",
                 cells |-> Tuple([k \in 1..Len(fields) |-> Int2R(base + k)])],
                [idx |-> "2024-01-03",
                 cells |-> Tuple([k \in 1..Len(fields) |-> Int2R(base + 10 + k)])]>>]

\* what pd.read_csv does at a path or URL: it raises (file missing, I/O
\* error, malformed, empty, undecodable) or returns a table.  The tables, with
\* prices around base: the header line only; the sample of
\* tests/test_loader.py; Date and Close only; no date column; a date that
\* cannot be parsed; rows out of order with an incomplete row and padded and
\* extra labels; a single incomplete row
CsvReads(base) ==
    LET header == <<"Date", "Open", "High", "Low", "Close", "Volume">>
        Ohlcv(date, b) == <<date, Int2R(b), Int2R(b + 10), Int2R(b - 10),
                            Int2R(b + 5), Int2R(1000)>>
    IN  {[kind |-> "raise", exc |-> e, frame |-> None] :
            e \in {"FileNotFoundError", "OSError", "ParserError",
                   "EmptyDataError", "UnicodeDecodeError"}}
        \cup
        {[kind |-> "frame", exc |-> "", frame |-> f] : f \in
           {CsvTable(header, <<>>),
            CsvTable(header, <<Ohlcv("2024-01-02", base),
                               Ohlcv("2024-01-03", base + 5)>>),
            CsvTable(<<"Date", "Close">>,
                     <<<<"2024-01-02", Int2R(base)>>,
                       <<"2024-01-03", Int2R(base + 5)>>>>),
            CsvTable(Tail(header), <<Tail(Ohlcv("2024-01-02", base))>>),
            CsvTable(header, <<Ohlcv("2024-01-02", base),
                               Ohlcv("n/a", base + 5)>>),
            CsvTable(<<"Date", "Adj Close", " Close ", "Volume", "Open", "High",
                       "Low">>,
                     <<<<"2024-01-04", Int2R(base + 1), Int2R(base + 5),
                         Int2R(1000), Int2R(base), Int2R(base + 10),
                         Int2R(base - 10)>>,
                       <<"2024-01-03", Int2R(base + 2), Int2R(base + 6),
                         Int2R(1000), Int2R(base), NaN, Int2R(base - 10)>>,
                       <<"2024-01-02", Int2R(base + 3), Int2R(base + 7),
                         Int2R(1000), Int2R(base), Int2R(base + 10),
                         Int2R(base - 10)>>>>),
            CsvTable(header, <<<<"2024-01-02", Int2R(base), NaN, Int2R(base),
                                 Int2R(base), Int2R(1000)>>>>)}}

\* whether yfinance can be imported and what download returns: nothing, a
\* table without Volume, a full table
YfinanceWorlds ==
    {[installed |-> FALSE, frame |-> None],
     [installed |-> TRUE, frame |-> YfTable(<<>>, 300)],
     [installed |-> TRUE,
      frame |-> YfTable(<<"Adj Close", "Close", "High", "Low", "Open">>, 300)],
     [installed |-> TRUE,
      frame |-> YfTable(<<"Adj Close", "Close", "High", "Low", "Open",
                          "Volume">>, 300)]}

\* mutant of Exhausted: the failure recorded on the way is dropped
ExhaustedNoCause(last_error) ==
    [type |-> "ValueError",
     msg |-> "DataLoader.load could not fetch data from any provided source.",
     cause |-> None]

\* the error load raises after the loop: from last_error if there is one
Exhausted(last_error) ==
    [type |-> "ValueError",
     msg |-> "DataLoader.load could not fetch data from any provided source.",
     cause |-> last_error]

\* load is called: the getters are listed, nothing has been consulted
LoadCall ==
    /\ ld = None
    /\ \E symbol \in {"", "AAPL"},
          filepath \in {None, Str(""), Str("prices.csv")},
          url \in {None, Str("https://example.com/prices.csv")},
          file \in CsvReads(100), web \in CsvReads(200), yf \in YfinanceWorlds :
          ld' = [kind |-> "load", pc |-> "loop",
                 symbol |-> symbol, filepath |-> filepath, url |-> url,
                 world |-> [file |-> file, url |-> web, yfinance |-> yf],
                 loaders |-> Loaders(filepath, url),
                 k |-> 1, last_error |-> None, tried |-> <<>>,
                 result |-> None, error |-> None]
    /\ UNCHANGED <<bt, ctor, call, nfail, pf, pctor, pcall, rw, thr, mcall>>

\* one iteration of the loop over the getters
LoadTry ==
    /\ ld # None
    /\ ld.pc = "loop"
    /\ ld.k <= Len(ld.loaders)
    /\ LET name  == ld.loaders[ld.k]
           got   == Getter(name, ld.symbol, ld.world)
           seen  == [ld EXCEPT !.k = ld.k + 1]
       IN  ld' =
             IF got.raised = "ImportError"
             THEN [seen EXCEPT
                     !.tried = Append(ld.tried, [name |-> name,
                                                 outcome |-> "ImportError"]),
                     !.last_error = [type |-> "ImportError",
                         msg |-> "yfinance is required to fetch data via the yfinance fallback."]]
             ELSE IF got.raised # "none"
             THEN [seen EXCEPT
                     !.pc = "raised",
                     !.tried = Append(ld.tried, [name |-> name,
                                                 outcome |-> "unhandled"]),
                     !.error = [type |-> got.raised, msg |-> "", cause |-> None]]
             ELSE IF got.frame = None
             THEN [seen EXCEPT
                     !.tried = Append(ld.tried, [name |-> name,
                                                 outcome |-> "nothing"])]
             ELSE LET cleaned == Clean(got.frame)
                  IN  IF cleaned.raised = "none"
                      THEN [seen EXCEPT
                              !.pc = "returned",
                              !.tried = Append(ld.tried, [name |-> name,
                                                          outcome |-> "clean"]),
                              !.result = cleaned.frame]
                      ELSE [seen EXCEPT
                              !.tried = Append(ld.tried, [name |-> name,
                                                          outcome |-> "ValueError"]),
                              !.last_error = [type |-> cleaned.raised,
                                              msg |-> cleaned.msg]]
    /\ UNCHANGED <<bt, ctor, call, nfail, pf, pctor, pcall, rw, thr, mcall>>

\* the loop is over and nothing was returned
LoadFail ==
    /\ ld # None
    /\ ld.pc = "loop"
    /\ ld.k > Len(ld.loaders)
    /\ ld' = [ld EXCEPT !.pc = "raised", !.error = Exhausted(ld.last_error)]
    /\ UNCHANGED <<bt, ctor, call, nfail, pf, pctor, pcall, rw, thr, mcall>>

NextLoad == LoadCall \/ LoadTry \/ LoadFail

SpecLoad == Init /\ [][NextLoad]_vars

----------------------------------------------------------------------------
(* Metrics (qlib/metrics/returns.py).  A float result is NaN or the record    *)
(* [kind, mean, variance, annualization], which stands for                    *)
(* mean / sqrt(variance) * sqrt(annualization); a deviation is compared with  *)
(* zero through its square                                                     *)

\* Series.dropna()
DropNa(rets) == SelectSeq(rets, LAMBDA e : ~IsNaN(e.v))

RECURSIVE Total(_)
\* the sum of the values of a series without missing values
Total(rets) == IF rets = <<>> THEN Zero
               ELSE RAdd(rets[1].v, Total(Tail(rets)))

\* Series.mean(): over the defined values, missing when there is none
SeriesMean(rets) ==
    LET clean == DropNa(rets)
    IN  IF clean = <<>> THEN NaN
        ELSE RDiv(Total(clean), Int2R(Len(clean)))

\* the square of Series.std(): the sample variance of the defined values,
\* missing when there are fewer than two
SeriesVar(rets) ==
    LET clean == DropNa(rets)
        mean  == SeriesMean(rets)
        sq    == Tuple([i \in 1..Len(clean) |->
                     [t |-> clean[i].t,
                      v |-> RMul(RSub(clean[i].v, mean), RSub(clean[i].v, mean))]])
    IN  IF Len(clean) < 2 THEN NaN
        ELSE RDiv(Total(sq), Int2R(Len(clean) - 1))

\* (mean / deviation) * np.sqrt(annualization)
Ratio(mean, variance, annualization) ==
    IF IsNaN(mean) \/ IsNaN(variance) THEN NaN
    ELSE [kind |-> "ratio", mean |-> mean, variance |-> variance,
          annualization |-> annualization]

\* mutant of Sharpe: the deviation is not compared with zero
SharpeUnchecked(rets, annualization) ==
    IF rets = <<>> THEN NaN
    ELSE Ratio(SeriesMean(rets), SeriesVar(rets), annualization)

\* sharpe
Sharpe(rets, annualization) ==
    IF rets = <<>> THEN NaN
    ELSE LET vol2 == SeriesVar(rets)
         IN  IF vol2 = Zero THEN NaN
             ELSE Ratio(SeriesMean(rets), vol2, annualization)

\* sortino
Sortino(rets, annualization) ==
    LET clean == DropNa(rets)
        downside == Tuple([i \in 1..Len(clean) |->
                        [t |-> clean[i].t,
                         v |-> IF RLt(clean[i].v, Zero) THEN clean[i].v
                               ELSE Zero]])
        squared == Tuple([i \in 1..Len(clean) |->
                        [t |-> clean[i].t,
                         v |-> RMul(downside[i].v, downside[i].v)]])
        downside_variance == SeriesMean(squared)
    IN  IF clean = <<>> THEN NaN
        ELSE IF downside_variance = Zero THEN NaN
        ELSE Ratio(SeriesMean(clean), downside_variance, annualization)

\* the returns series of up to MaxRets entries, on a RangeIndex
ReturnsArgs ==
    UNION {{Tuple([i \in 1..n |-> [t |-> i - 1, v |-> f[i]]]) :
               f \in [1..n -> {NaN, Rat(-1, 2), Zero, Rat(1, 2), Int2R(1)}]} :
           n \in 0..MaxRets}

\* a caller computes the Sharpe ratio of a returns series
CallSharpe ==
    /\ mcall = None
    /\ \E rets \in ReturnsArgs, annualization \in {252, 12} :
          mcall' = [kind |-> "metric", fn |-> "sharpe", rets |-> rets,
                    annualization |-> annualization, raised |-> "none",
                    result |-> Sharpe(rets, annualization)]
    /\ UNCHANGED <<bt, ctor, call, nfail, pf, pctor, pcall, rw, thr, ld>>

\* a caller computes the Sortino ratio of a returns series
CallSortino ==
    /\ mcall = None
    /\ \E rets \in ReturnsArgs, annualization \in {252, 12} :
          mcall' = [kind |-> "metric", fn |-> "sortino", rets |-> rets,
                    annualization |-> annualization, raised |-> "none",
                    result |-> Sortino(rets, annualization)]
    /\ UNCHANGED <<bt, ctor, call, nfail, pf, pctor, pcall, rw, thr, ld>>

NextMetrics == CallSharpe \/ CallSortino

SpecMetrics == Init /\ [][NextMetrics]_vars

----------------------------------------------------------------------------
(* Claims about the single-asset simulator *)

\* the timestamps the signal of the latest call shares with the prices
Shared == Index(call.signal.data) \cap Index(bt.prices)

SignalAt(t) == call.signal.data[At(call.signal.data, t)].v

PriceAt(t) == bt.prices[At(bt.prices, t)].v

\* y is x limited to [-m, m]; a missing x gives a missing y
IsClampOf(y, x, m) ==
    /\ IsNaN(x) => IsNaN(y)
    /\ RLt(m, x) => y = m
    /\ RLt(x, RNeg(m)) => y = RNeg(m)
    /\ (RLe(RNeg(m), x) /\ RLe(x, m)) => y = x

\* the signal of the latest call with every value at or after t set to x
MaskFrom(t, x) ==
    [call.signal EXCEPT !.data =
        [i \in 1..Len(call.signal.data) |->
            IF call.signal.data[i].t >= t
            THEN [t |-> call.signal.data[i].t, v |-> x]
            ELSE call.signal.data[i]]]

\* C1: on the aligned timeline the position at the first timestamp is missing
\* and the position at any other timestamp is the signal of the preceding
\* aligned timestamp clamped to [-max_position, max_position]; the return at t
\* does not depend on the signal values at t or later.
C1_LagCorrect ==
    Ran =>
        /\ Index(call.positions) = Shared
        /\ \A i \in 1..Len(call.positions) :
              LET t       == call.positions[i].t
                  earlier == {u \in Shared : u < t}
              IN  /\ earlier = {} => IsNaN(call.positions[i].v)
                  /\ earlier # {} =>
                        IsClampOf(call.positions[i].v, SignalAt(Max(earlier)),
                                  bt.max_position)
                  /\ \A x \in {Zero, Int2R(3)} :
                        BacktesterRun(bt, MaskFrom(t, x)).result.data[i] = call.result.data[i]

\* C1 witness: a run over three aligned timestamps whose defined positions
\* follow a signal that changes from one timestamp to the next
C1_Witness ==
    /\ Ran
    /\ Len(call.positions) = 3
    /\ ~IsNaN(call.positions[2].v)
    /\ ~IsNaN(call.positions[3].v)
    /\ call.signal_aligned[1].v # call.signal_aligned[2].v
    /\ call.signal_aligned[2].v # call.signal_aligned[3].v
    /\ call.result.data[3].v # Zero

\* C2: every defined position lies within [-max_position, max_position]
C2_Clamped ==
    Ran =>
        \A i \in 1..Len(call.positions) :
            ~IsNaN(call.positions[i].v) =>
                /\ RLe(RNeg(bt.max_position), call.positions[i].v)
                /\ RLe(call.positions[i].v, bt.max_position)

\* C2 witness: signals beyond both bounds were clamped in one run
C2_Witness ==
    /\ Ran
    /\ \E i \in 1..Len(call.positions) :
          /\ i > 1
          /\ RLt(bt.max_position, call.signal_aligned[i - 1].v)
          /\ call.positions[i].v = bt.max_position
    /\ \E i \in 1..Len(call.positions) :
          /\ i > 1
          /\ RLt(call.signal_aligned[i - 1].v, RNeg(bt.max_position))
          /\ call.positions[i].v = RNeg(bt.max_position)

\* position(t) x (price(t)/price(t') - 1) at the i-th aligned timestamp t, t'
\* being the aligned timestamp before it; missing at the first
RawReturn(i) ==
    IF i = 1 THEN NaN
    ELSE RMul(call.positions[i].v,
              RSub(RDiv(PriceAt(call.positions[i].t),
                        PriceAt(call.positions[i - 1].t)), Int2R(1)))

\* C3: with zero commission the return at every aligned timestamp is
\* position(t) x (price(t)/price(t-1) - 1), the position being the clamped
\* signal of the preceding timestamp, and the result is named strategy_returns
C3_ZeroCommissionReturns ==
    (Ran /\ bt.commission_bps = Zero) =>
        /\ call.result.name = "strategy_returns"
        /\ Index(call.result.data) = Shared
        /\ \A i \in 1..Len(call.result.data) :
              /\ call.result.data[i].t = call.positions[i].t
              /\ call.result.data[i].v = RawReturn(i)
              /\ i > 1 => IsClampOf(call.positions[i].v,
                                    SignalAt(call.result.data[i - 1].t),
                                    bt.max_position)

\* C3 witness: a zero-commission run with a gain and a loss
C3_Witness ==
    /\ Ran
    /\ bt.commission_bps = Zero
    /\ \E i \in 1..Len(call.result.data) : RLt(Zero, call.result.data[i].v)
    /\ \E i \in 1..Len(call.result.data) : RLt(call.result.data[i].v, Zero)

CommissionRate == RDiv(bt.commission_bps, Int2R(BasisPoints))

\* |position(t) - position(t-1)|, missing when either position is missing
PositionChange(i) ==
    IF i = 1 THEN NaN
    ELSE RAbs(RSub(call.positions[i].v, call.positions[i - 1].v))

\* C4 as stated: net return = raw return - |position(t) - position(t-1)| x rate
\* with only the first period's turnover taken as 0 instead of missing
C4_FirstPeriodOnly ==
    (Ran /\ RLt(Zero, bt.commission_bps)) =>
        \A i \in 1..Len(call.result.data) :
            call.result.data[i].v =
                RSub(RawReturn(i),
                     RMul(IF i = 1 THEN Zero ELSE PositionChange(i),
                          CommissionRate))

\* C4 amended: net return = raw return - turnover x rate, where the turnover is
\* |position(t) - position(t-1)| when both positions are defined and 0 whenever
\* either is missing (the first two aligned timestamps, and around a missing
\* signal value)
C4_NetOfCosts ==
    (Ran /\ RLt(Zero, bt.commission_bps)) =>
        \A i \in 1..Len(call.result.data) :
            call.result.data[i].v =
                RSub(RawReturn(i),
                     RMul(FillNa(PositionChange(i), Zero), CommissionRate))

\* C4 witness: with commission, a position is established at the second
\* timestamp and changed at the third, where a cost is charged
C4_Witness ==
    /\ Ran
    /\ RLt(Zero, bt.commission_bps)
    /\ Len(call.result.data) = 3
    /\ ~IsNaN(call.positions[2].v)
    /\ call.result.data[2].v = RawReturn(2)
    /\ RLt(Zero, PositionChange(3))
    /\ RLt(call.result.data[3].v, RawReturn(3))

\* C5: a run whose signal shares no timestamp with the prices raises the
\* ValueError naming the missing shared timestamps and returns nothing; the
\* instance stays as constructed, and a run that succeeds after a failed one
\* returns what the freshly constructed instance returns for that signal
C5_NoOverlapFails ==
    /\ bt # None => bt = ctor.self
    /\ (call # None /\ call.signal.kind = "Series") =>
          /\ (Index(call.signal.data) \cap Index(ctor.self.prices) = {})
                <=> call.raised = "ValueError"
          /\ call.raised = "ValueError" =>
                /\ call.msg = "signal and prices do not share any timestamps"
                /\ call.result = None
          /\ (nfail /\ call.raised = "none") =>
                /\ call.result = BacktesterRun(ctor.self, call.signal).result
                /\ call.result.kind = "Series"

\* C5 witness: a run over shared timestamps succeeded after a run on a disjoint
\* timeline had raised
C5_Witness ==
    /\ nfail
    /\ Ran
    /\ Len(call.result.data) >= 2
    /\ ~IsNaN(call.result.data[2].v)

\* C5 witness of the failure itself: the latest run raised on a non-empty
\* signal that shares no timestamp with the prices
C5_FailureReached ==
    /\ call # None
    /\ call.raised = "ValueError"
    /\ Len(call.signal.data) > 0

\* C16 as stated: the returned Series has exactly one entry for each timestamp
\* of the price Series, under the name strategy_returns
C16_PriceTimeline ==
    Ran =>
        /\ call.result.name = "strategy_returns"
        /\ Len(call.result.data) = Len(bt.prices)
        /\ Index(call.result.data) = Index(bt.prices)

\* C16 amended: the returned Series has exactly one entry for each timestamp
\* that the signal shares with the prices, in ascending order, under the name
\* strategy_returns; it covers the price timeline only if the signal does
C16_SharedTimeline ==
    Ran =>
        /\ call.result.name = "strategy_returns"
        /\ Len(call.result.data) = Cardinality(Shared)
        /\ Index(call.result.data) = Shared
        /\ Increasing(call.result.data)
        /\ (Index(call.result.data) = Index(bt.prices))
              <=> (Index(bt.prices) \subseteq Index(call.signal.data))

\* C16 witness: the signal has the first and the last of three price
\* timestamps and not the middle one; the result has two entries, the second
\* being the return over both periods
C16_Witness ==
    /\ Ran
    /\ Len(bt.prices) = 3
    /\ Index(call.signal.data) = {bt.prices[1].t, bt.prices[3].t}
    /\ Len(call.result.data) = 2
    /\ call.result.data[2].t = bt.prices[3].t
    /\ call.result.data[2].v # Zero
    /\ call.result.data[2].v = RawReturn(2)

\* C17 as stated: a shared timestamp whose signal value is missing has no entry
\* in the aligned timeline, nor in the result
C17_UndefinedExcluded ==
    Ran =>
        /\ Index(call.signal_aligned) = {t \in Shared : ~IsNaN(SignalAt(t))}
        /\ Index(call.result.data) = {t \in Shared : ~IsNaN(SignalAt(t))}

\* C17 amended: a shared timestamp whose signal value is missing keeps its entry
\* in the aligned timeline and in the result; the position and the return at
\* the next aligned timestamp are missing, and no cost is charged at the
\* timestamp after that one, whose turnover is taken as 0
C17_UndefinedKept ==
    Ran =>
        /\ Index(call.signal_aligned) = Shared
        /\ \A i \in 1..Len(call.signal_aligned) :
              IsNaN(call.signal_aligned[i].v) =>
                  /\ call.result.data[i].t = call.signal_aligned[i].t
                  /\ i + 1 <= Len(call.result.data) =>
                        /\ IsNaN(call.positions[i + 1].v)
                        /\ IsNaN(call.result.data[i + 1].v)
                  /\ i + 2 <= Len(call.result.data) =>
                        call.result.data[i + 2].v = RawReturn(i + 2)

\* C17 witness: with commission, the signal is missing at the first of three
\* shared timestamps: the second return is missing and the third, earned by a
\* position taken up from a missing one, bears no cost
C17_Witness ==
    /\ Ran
    /\ RLt(Zero, bt.commission_bps)
    /\ Len(call.result.data) = 3
    /\ IsNaN(call.signal_aligned[1].v)
    /\ ~IsNaN(call.signal_aligned[2].v)
    /\ IsNaN(call.result.data[2].v)
    /\ call.result.data[3].v = RawReturn(3)
    /\ call.result.data[3].v # Zero

\* C19: constructing a Backtester raises TypeError when the prices are not a
\* Series, and ValueError when they are an empty Series, when max_position <= 0
\* or when the commission is negative, and then there is no instance;
\* otherwise it raises nothing and yields an instance
C19_ConstructionValidated ==
    ctor # None =>
        LET notSeries == ctor.prices_kind # "Series"
            invalid   == \/ ctor.prices_len = 0
                         \/ RLe(ctor.max_position, Zero)
                         \/ RLt(ctor.commission_bps, Zero)
        IN  /\ notSeries => ctor.raised = "TypeError"
            /\ (~notSeries /\ invalid) => ctor.raised = "ValueError"
            /\ ctor.raised # "none" => (ctor.self = None /\ bt = None)
            /\ (~notSeries /\ ~invalid) =>
                  /\ ctor.raised = "none"
                  /\ bt # None
                  /\ bt.kind = "Backtester"
                  /\ bt.max_position = ctor.max_position
                  /\ bt.commission_bps = ctor.commission_bps
                  /\ Len(bt.prices) = ctor.prices_len

\* C19 witness: a non-empty Series and a valid commission with max_position = 0
\* are refused
C19_Witness ==
    /\ ctor # None
    /\ ctor.prices_kind = "Series"
    /\ ctor.prices_len > 0
    /\ ctor.max_position = Zero
    /\ ctor.commission_bps = Zero
    /\ ctor.raised = "ValueError"
    /\ ctor.msg = "max_position must be positive"
    /\ bt = None

\* C19 witness of a construction that succeeds, with commission 0
C19_Constructed ==
    /\ ctor # None
    /\ ctor.raised = "none"
    /\ ctor.commission_bps = Zero
    /\ bt # None
    /\ Len(bt.prices) = 3

\* C19 witnesses of the other refusals: no Series, an empty Series, a negative
\* commission
C19_OtherRefusals ==
    /\ ctor # None
    /\ ctor.self = None
    /\ \/ ctor.msg = "prices must be a pandas Series"
       \/ ctor.msg = "prices must contain at least one observation"
       \/ ctor.msg = "commission_bps cannot be negative"

----------------------------------------------------------------------------
(* Claims about the portfolio simulator *)

PRan == pcall # None

\* the arguments of the constructor call pass every check the constructor makes
ValidPortfolioArgs ==
    /\ pctor.prices_kind = "DataFrame"
    /\ pctor.prices_len > 0
    /\ pctor.prices_columns # {}
    /\ pctor.prices_levels = 2
    /\ RLe(Zero, pctor.commission_bps)

\* C6: constructing with weights whose keys are not exactly the symbols of the
\* price table raises ValueError and produces no simulator
C6_WeightsMustMatch ==
    (/\ pctor # None
     /\ pctor.weights # None
     /\ ValidPortfolioArgs
     /\ DOMAIN pctor.weights.map # pctor.prices_columns)
        => (pctor.raised = "ValueError" /\ pf = None)

\* the close of symbol c at the i-th timestamp of the price table
Close(i, c) == pf.prices.rows[i].row[c]

\* the simple percentage change of the close of c at the i-th timestamp
AssetReturn(i, c) ==
    IF i = 1 THEN NaN ELSE RSub(RDiv(Close(i, c), Close(i - 1, c)), Int2R(1))

\* the signals of the latest run with every row at or after t set to r
MaskRowsFrom(t, r) ==
    [pcall.signals EXCEPT !.rows =
        [i \in 1..Len(pcall.signals.rows) |->
            IF pcall.signals.rows[i].t >= t
            THEN [t |-> pcall.signals.rows[i].t, row |-> r]
            ELSE pcall.signals.rows[i]]]

\* C7: the position of every symbol at every timestamp after the first is the
\* weight of the preceding timestamp and the first position is missing, so the
\* first return is 0; the return at t does not depend on the signal rows at t
\* or later
C7_PortfolioLag ==
    PRan =>
        /\ IndexSeq(pcall.positions) = IndexSeq(pf.prices)
        /\ IndexSeq(pcall.weight_matrix) = IndexSeq(pf.prices)
        /\ \A i \in 1..Len(pcall.positions.rows) :
              /\ \A c \in pcall.positions.columns :
                    pcall.positions.rows[i].row[c] =
                        IF i = 1 THEN NaN
                        ELSE pcall.weight_matrix.rows[i - 1].row[c]
              /\ i = 1 => pcall.result.data[i].v = Zero
              /\ pcall.signals # None =>
                    PortfolioRun(pf, MaskRowsFrom(pcall.positions.rows[i].t,
                                                  Row(Int2R(5), Int2R(-7))))
                        .result.data[i] = pcall.result.data[i]

\* C7 witness: a run on signals whose weights change over three timestamps
C7_Witness ==
    /\ PRan
    /\ pcall.signals # None
    /\ Len(pcall.positions.rows) = 3
    /\ pcall.weight_matrix.rows[1].row # pcall.weight_matrix.rows[2].row
    /\ pcall.weight_matrix.rows[2].row # pcall.weight_matrix.rows[3].row
    /\ pcall.positions.rows[2].row["A"] # Zero
    /\ pcall.result.data[2].v # Zero
    /\ pcall.result.data[3].v # Zero

\* the i-th timestamp of the price table is the first one of its period
FirstOfPeriod(i) ==
    \A k \in 1..(i - 1) :
        PeriodOf(pf.rebalance_freq, pf.prices.rows[k].t)
            # PeriodOf(pf.rebalance_freq, pf.prices.rows[i].t)

\* the reference weight of each symbol at the i-th timestamp: 1/N from the first
\* timestamp of a period on (set on those timestamps, forward-filled), else 0
ReferenceWeight(i) ==
    IF \E j \in 1..i : FirstOfPeriod(j)
    THEN Rat(1, Cardinality(pf.symbols))
    ELSE Zero

\* sum over the symbols in S of weight x asset return, skipping missing terms
RECURSIVE WeightedReturn(_, _, _)
WeightedReturn(w, i, S) ==
    IF S = {} THEN Zero
    ELSE LET c == CHOOSE x \in S : TRUE
         IN  RAdd(FillNa(RMul(w[c], AssetReturn(i, c)), Zero),
                  WeightedReturn(w, i, S \ {c}))

\* C8: in static mode with zero commission the return at every timestamp is the
\* sum over the symbols of position x simple percentage change of the close
\* (missing terms skipped, so 0 at the first timestamp); with the default equal
\* weights it equals the reference: 1/N from the first timestamp of a period,
\* forward-filled, lagged by one, summed
C8_StaticReturns ==
    (PRan /\ pcall.signals = None /\ pf.commission_bps = Zero) =>
        /\ IndexSeq(pcall.positions) = IndexSeq(pf.prices)
        /\ \A i \in 1..Len(pf.prices.rows) :
              /\ pcall.result.data[i].t = pf.prices.rows[i].t
              /\ pcall.result.data[i].v =
                    WeightedReturn(pcall.positions.rows[i].row, i, pf.symbols)
              /\ pctor.weights = None =>
                    pcall.result.data[i].v =
                        WeightedReturn(
                            [c \in pf.symbols |->
                                IF i = 1 THEN NaN ELSE ReferenceWeight(i - 1)],
                            i, pf.symbols)

\* C8 witness: an equal-weight run over two symbols and three timestamps with
\* two different non-zero returns
C8_Witness ==
    /\ PRan
    /\ pcall.signals = None
    /\ pf.commission_bps = Zero
    /\ pctor.weights = None
    /\ pf.symbols = {"A", "B"}
    /\ Len(pcall.result.data) = 3
    /\ pcall.result.data[2].v # Zero
    /\ pcall.result.data[3].v # Zero
    /\ pcall.result.data[2].v # pcall.result.data[3].v

----------------------------------------------------------------------------
(* Claims about the rebalance calendar and the static weight matrix *)

\* the timestamps of the timeline that no earlier timestamp of the timeline
\* shares its period with
FirstsOf(index, freq) ==
    {t \in Range(index) :
        \A u \in Range(index) : u < t => PeriodOf(freq, u) # PeriodOf(freq, t)}

\* C9: with monthly frequency the rows are set to the target weights exactly on
\* the first timeline timestamp of each calendar month, and every other row
\* equals the row before it
C9_MonthlyRebalance ==
    (rw # None /\ pf.rebalance_freq = "ME") =>
        /\ Range(rw.rebalance_dates) =
              {t \in Range(rw.index) :
                  \A u \in Range(rw.index) : u < t => MonthOf(u) # MonthOf(t)}
        /\ IndexSeq(rw.weight_matrix) = rw.index
        /\ \A i \in 1..Len(rw.index) :
              IF rw.index[i] \in Range(rw.rebalance_dates)
              THEN \A c \in pf.symbols \cap DOMAIN pf.weights :
                      rw.weight_matrix.rows[i].row[c] = pf.weights[c]
              ELSE /\ i > 1
                   /\ rw.weight_matrix.rows[i].row =
                          rw.weight_matrix.rows[i - 1].row

\* C9 witness: a timeline with two timestamps in one month and a third in the
\* next, rebalanced monthly into non-zero weights
C9_Witness ==
    /\ rw # None
    /\ pf.rebalance_freq = "ME"
    /\ Len(rw.index) = 3
    /\ MonthOf(rw.index[1]) = MonthOf(rw.index[2])
    /\ MonthOf(rw.index[2]) # MonthOf(rw.index[3])
    /\ Len(rw.rebalance_dates) = 2
    /\ rw.weight_matrix.rows[2].row["A"] # Zero

\* C10: for every frequency the calendar holds only timeline timestamps, one
\* per period, and every timeline timestamp has its period's earliest timeline
\* timestamp in the calendar
C10_Calendar ==
    rw # None =>
        LET dates == rw.rebalance_dates
            freq  == pf.rebalance_freq
        IN  /\ \A k \in 1..Len(dates) : dates[k] \in Range(rw.index)
            /\ \A k, l \in 1..Len(dates) :
                  k # l => PeriodOf(freq, dates[k]) # PeriodOf(freq, dates[l])
            /\ \A t \in Range(rw.index) :
                  \E k \in 1..Len(dates) :
                      /\ PeriodOf(freq, dates[k]) = PeriodOf(freq, t)
                      /\ dates[k] <= t
            /\ Range(dates) = FirstsOf(rw.index, freq)

\* C10 witness: a calendar that skips a timeline timestamp sharing a period
\* with an earlier one, and spans periods holding no timestamp at all
C10_Witness ==
    /\ rw # None
    /\ Len(rw.rebalance_dates) >= 2
    /\ Len(rw.rebalance_dates) < Len(rw.index)
    /\ \E k \in 1..(Len(rw.rebalance_dates) - 1) :
          PeriodOf(pf.rebalance_freq, rw.rebalance_dates[k + 1])
              > PeriodOf(pf.rebalance_freq, rw.rebalance_dates[k]) + 1

\* C11: with no target weights supplied, the weight matrix row at every
\* rebalance date (the first timeline timestamp of each period) holds exactly
\* 1/N for each of the N symbols of the price table, and nothing else
C11_EqualWeightDefault ==
    (rw # None /\ pctor.weights = None) =>
        LET N == Cardinality(pctor.prices_columns)
        IN  \A i \in 1..Len(rw.index) :
                rw.index[i] \in FirstsOf(rw.index, pf.rebalance_freq) =>
                    /\ rw.index[i] \in Range(rw.rebalance_dates)
                    /\ DOMAIN rw.weight_matrix.rows[i].row = pctor.prices_columns
                    /\ \A c \in pctor.prices_columns :
                          rw.weight_matrix.rows[i].row[c] = Rat(1, N)

\* C11 witness: default weights over three symbols, rebalanced at the first
\* timestamp and again at a later one that is not the next timestamp
C11_Witness ==
    /\ rw # None
    /\ pctor.weights = None
    /\ Cardinality(pctor.prices_columns) = 3
    /\ Len(rw.rebalance_dates) >= 2
    /\ rw.rebalance_dates[2] # rw.index[2]
    /\ rw.weight_matrix.rows[At([k \in 1..Len(rw.index) |-> [t |-> rw.index[k]]],
                                rw.rebalance_dates[2])].row["C"] = Rat(1, 3)

----------------------------------------------------------------------------
(* Claims about signal-override mode *)

\* the run was given a signal table
SignalMode == pcall # None /\ pcall.signals # None

\* the signal row holds a defined value other than 0
HasNonzero(row) == \E c \in DOMAIN row : ~IsNaN(row[c]) /\ row[c] # Zero

AllZero(row) == \A c \in DOMAIN row : row[c] = Zero

\* the sum of the absolute values of the defined entries of a row
RECURSIVE AbsSum(_, _)
AbsSum(row, S) ==
    IF S = {} THEN Zero
    ELSE LET c == CHOOSE x \in S : TRUE
         IN  RAdd(IF IsNaN(row[c]) THEN Zero ELSE RAbs(row[c]),
                  AbsSum(row, S \ {c}))

\* the timestamps of the price table
Timeline == FIndex(pf.prices)

\* the row of the final weight matrix at timestamp t of the price table
WeightRowAt(t) == pcall.weight_matrix.rows[FAt(pcall.weight_matrix, t)].row

\* C12: the weights of a signal row holding a nonzero value are the signals
\* divided by the row's sum of absolute values (a missing signal gives 0), so
\* their absolute values sum to 1 and each keeps its sign; the weights of an
\* all-zero signal row are all 0, and at its timestamp the final weight matrix
\* holds that all-zero row, not the row before it
C12_Normalized ==
    SignalMode =>
        \A i \in 1..Len(pcall.signals.rows) :
            LET t       == pcall.signals.rows[i].t
                row     == pcall.signals.rows[i].row
                weights == NormalizeRows(pcall.signals).rows[i].row
            IN  /\ HasNonzero(row) =>
                      /\ AbsSum(weights, DOMAIN weights) = Int2R(1)
                      /\ \A c \in DOMAIN row :
                            /\ weights[c] = FillNa(RDiv(row[c],
                                                       AbsSum(row, DOMAIN row)),
                                                  Zero)
                            /\ RLt(Zero, row[c]) => RLt(Zero, weights[c])
                            /\ RLt(row[c], Zero) => RLt(weights[c], Zero)
                      /\ t \in Timeline =>
                            AbsSum(WeightRowAt(t), DOMAIN row) = Int2R(1)
                /\ AllZero(row) =>
                      /\ AllZero(weights)
                      /\ t \in Timeline => AllZero(WeightRowAt(t))

\* C12 witness: a long/short signal row followed by an all-zero one, both on
\* the price timeline: the weights -1/4 and 3/4 are followed by an all-zero row
C12_Witness ==
    /\ SignalMode
    /\ \E i \in 1..(Len(pcall.signals.rows) - 1) :
          LET t == pcall.signals.rows[i].t
              u == pcall.signals.rows[i + 1].t
          IN  /\ {t, u} \subseteq Timeline
              /\ pcall.signals.rows[i].row = Row(Int2R(-1), Int2R(3))
              /\ AllZero(pcall.signals.rows[i + 1].row)
              /\ WeightRowAt(t) = Row(Rat(-1, 4), Rat(3, 4))
              /\ AllZero(WeightRowAt(u))

\* C13: in signal-override mode the weight matrix has exactly the timestamps of
\* the price table; at a timestamp with a signal row it holds that row's
\* normalized values, at one without it holds the weights of the latest
\* earlier timestamp of the price table that has a signal row, or zeros when
\* there is none; signal rows off the price timeline take no part
C13_SignalAlignment ==
    SignalMode =>
        /\ IndexSeq(pcall.weight_matrix) = IndexSeq(pf.prices)
        /\ \A t \in Timeline :
              LET have == {u \in Timeline \cap FIndex(pcall.signals) : u <= t}
              IN  IF have = {}
                  THEN AllZero(WeightRowAt(t))
                  ELSE WeightRowAt(t) =
                          NormalizeRows(pcall.signals)
                              .rows[FAt(pcall.signals, Max(have))].row

\* C13 witness: a timestamp of the price table without a signal row takes the
\* weights of an earlier one, although a signal row off the price timeline
\* with other weights lies in between
C13_Witness ==
    /\ SignalMode
    /\ \E t, u, x \in PStamps :
          /\ u < x /\ x < t
          /\ {u, t} \subseteq Timeline
          /\ x \notin Timeline
          /\ {u, x} \subseteq FIndex(pcall.signals)
          /\ t \notin FIndex(pcall.signals)
          /\ WeightRowAt(t) = WeightRowAt(u)
          /\ ~AllZero(WeightRowAt(t))
          /\ NormalizeRows(pcall.signals).rows[FAt(pcall.signals, x)].row
                # WeightRowAt(t)

\* C13 second witness: the only earlier signal row lies off the price timeline,
\* and the weights are all zero
C13_Discarded ==
    /\ SignalMode
    /\ \E t, x \in PStamps :
          /\ x < t
          /\ t \in Timeline
          /\ x \notin Timeline
          /\ FIndex(pcall.signals) = {x}
          /\ HasNonzero(pcall.signals.rows[1].row)
          /\ AllZero(WeightRowAt(t))

----------------------------------------------------------------------------
(* Claims about the costs of the portfolio simulator *)

PortfolioRate == RDiv(pf.commission_bps, Int2R(BasisPoints))

\* the return before costs at the i-th timestamp: the sum over the symbols of
\* position x asset return, missing terms skipped
PortfolioRaw(i) == WeightedReturn(pcall.positions.rows[i].row, i, pf.symbols)

\* sum over the symbols in S of |position(i) - position(i-1)|, missing as soon
\* as one of the positions is
RECURSIVE ChangeSum(_, _)
ChangeSum(i, S) ==
    IF S = {} THEN Zero
    ELSE LET c == CHOOSE x \in S : TRUE
         IN  RAdd(RAbs(RSub(pcall.positions.rows[i].row[c],
                            pcall.positions.rows[i - 1].row[c])),
                  ChangeSum(i, S \ {c}))

\* C14 as stated: net return = raw return - rate x sum of |position(t) -
\* position(t-1)|, with only the first timestamp's turnover taken as 0
C14_FirstPeriodOnly ==
    (PRan /\ RLt(Zero, pf.commission_bps)) =>
        \A i \in 1..Len(pcall.result.data) :
            pcall.result.data[i].v =
                RSub(PortfolioRaw(i),
                     RMul(IF i = 1 THEN Zero
                          ELSE ChangeSum(i, pcall.positions.columns),
                          PortfolioRate))

\* C14 amended: net return = raw return - rate x turnover, where the turnover
\* is 0 at the first two timestamps (the position of the first timestamp is
\* missing, so taking up the first weights is not charged) and the sum over the
\* symbols of |position(t) - position(t-1)| from the third timestamp on
C14_PortfolioNetOfCosts ==
    (PRan /\ RLt(Zero, pf.commission_bps)) =>
        \A i \in 1..Len(pcall.result.data) :
            /\ pcall.result.data[i].t = pf.prices.rows[i].t
            /\ pcall.result.data[i].v =
                  RSub(PortfolioRaw(i),
                       RMul(IF i <= 2 THEN Zero
                            ELSE ChangeSum(i, pcall.positions.columns),
                            PortfolioRate))

\* C14 witness: with commission, weights are taken up at the second timestamp
\* at no cost and changed at the third, where the cost lowers the return
C14_Witness ==
    /\ SignalMode
    /\ RLt(Zero, pf.commission_bps)
    /\ Len(pcall.result.data) = 3
    /\ ~AllZero(pcall.positions.rows[2].row)
    /\ pcall.result.data[2].v = PortfolioRaw(2)
    /\ pcall.result.data[2].v # Zero
    /\ RLt(Zero, ChangeSum(3, pcall.positions.columns))
    /\ RLt(pcall.result.data[3].v, PortfolioRaw(3))

\* the sum of the defined values of a returns Series
RECURSIVE CumReturn(_)
CumReturn(data) ==
    IF Len(data) = 0 THEN Zero
    ELSE RAdd(FillNa(data[1].v, Zero), CumReturn(Tail(data)))

\* commission rates (in basis points) to compare a run with
OtherBps == {Zero, Int2R(5), Int2R(20)}

\* what the single-asset run would have returned at commission c
SingleAt(c) ==
    BacktesterRun([bt EXCEPT !.commission_bps = c], call.signal).result.data

\* what the portfolio run would have returned at commission c
PortfolioAt(c) ==
    PortfolioRun([pf EXCEPT !.commission_bps = c], pcall.signals).result.data

\* C15: for the same prices and the same signal (or weights), a run at a higher
\* commission has a cumulative net return (the sum of the defined returns) at
\* most that of a run at a lower commission, in both simulators
C15_CostMonotone ==
    /\ Ran =>
          \A c \in OtherBps :
              /\ RLt(bt.commission_bps, c) =>
                    RLe(CumReturn(SingleAt(c)), CumReturn(call.result.data))
              /\ RLt(c, bt.commission_bps) =>
                    RLe(CumReturn(call.result.data), CumReturn(SingleAt(c)))
    /\ PRan =>
          \A c \in OtherBps :
              /\ RLt(pf.commission_bps, c) =>
                    RLe(CumReturn(PortfolioAt(c)), CumReturn(pcall.result.data))
              /\ RLt(c, pf.commission_bps) =>
                    RLe(CumReturn(pcall.result.data), CumReturn(PortfolioAt(c)))

\* C15 witness: a portfolio run at 10 basis points whose weights change, so it
\* returns less than at 5 and at 0 and more than at 20 basis points
C15_Witness ==
    /\ SignalMode
    /\ pf.commission_bps = Int2R(10)
    /\ RLt(CumReturn(pcall.result.data), CumReturn(PortfolioAt(Int2R(5))))
    /\ RLt(CumReturn(PortfolioAt(Int2R(5))), CumReturn(PortfolioAt(Zero)))
    /\ RLt(CumReturn(PortfolioAt(Int2R(20))), CumReturn(pcall.result.data))

\* C15 witness for the single-asset simulator: a run at 10 basis points whose
\* position changes, the missing first return being left out of the sum
C15_WitnessSingle ==
    /\ Ran
    /\ bt.commission_bps = Int2R(10)
    /\ IsNaN(call.result.data[1].v)
    /\ RLt(CumReturn(call.result.data), CumReturn(SingleAt(Zero)))
    /\ RLt(CumReturn(SingleAt(Int2R(20))), CumReturn(call.result.data))

----------------------------------------------------------------------------
(* Claims about the result of the portfolio simulator *)

\* C18: in static mode and in signal-override mode, whatever timestamps the
\* signal table has, the result has exactly one entry per timestamp of the
\* price table, in its order, is named portfolio_returns, and its first value
\* is 0 or missing
C18_OutputShape ==
    PRan =>
        /\ pcall.result.kind = "Series"
        /\ pcall.result.name = "portfolio_returns"
        /\ Len(pcall.result.data) = Len(pf.prices.rows)
        /\ \A i \in 1..Len(pcall.result.data) :
              pcall.result.data[i].t = pf.prices.rows[i].t
        /\ pcall.result.data[1].v \in {Zero, NaN}

\* C18 witness: a run on a signal table with a timestamp the price table lacks
\* and without one the price table has, returning a non-zero value after the
\* first
C18_Witness ==
    /\ SignalMode
    /\ FIndex(pcall.signals) \ Timeline # {}
    /\ Timeline \ FIndex(pcall.signals) # {}
    /\ Len(pcall.result.data) >= 2
    /\ pcall.result.data[1].v = Zero
    /\ pcall.result.data[2].v # Zero

\* C18 witness in static mode
C18_WitnessStatic ==
    /\ PRan
    /\ pcall.signals = None
    /\ Len(pcall.result.data) = 3
    /\ pcall.result.data[1].v = Zero
    /\ pcall.result.data[3].v # Zero

----------------------------------------------------------------------------
(* Claims about the construction of the portfolio simulator *)

\* C20: constructing a PortfolioBacktester raises TypeError when the prices are
\* not a DataFrame, else ValueError when the table is empty (whatever its
\* columns), else TypeError when the columns are not two-level, else
\* ValueError when the commission is negative; then there is no instance
C20_PortfolioValidated ==
    pctor # None =>
        LET notTable == pctor.prices_kind # "DataFrame"
            empty    == pctor.prices_len = 0 \/ pctor.prices_columns = {}
            flat     == pctor.prices_levels # 2
            negative == RLt(pctor.commission_bps, Zero)
        IN  /\ notTable =>
                  /\ pctor.raised = "TypeError"
                  /\ pctor.msg = "prices must be a pandas DataFrame"
            /\ (~notTable /\ empty) =>
                  /\ pctor.raised = "ValueError"
                  /\ pctor.msg = "prices must contain at least one observation"
            /\ (~notTable /\ ~empty /\ flat) =>
                  /\ pctor.raised = "TypeError"
                  /\ pctor.msg =
                        "prices must have MultiIndex columns (symbol, field)"
            /\ (~notTable /\ ~empty /\ ~flat /\ negative) =>
                  /\ pctor.raised = "ValueError"
                  /\ pctor.msg = "commission_bps cannot be negative"
            /\ (notTable \/ empty \/ flat \/ negative) =>
                  (pctor.self = None /\ pf = None)

\* C20 witness: an empty table with flat columns is refused as empty
C20_Witness ==
    /\ pctor # None
    /\ pctor.prices_kind = "DataFrame"
    /\ pctor.prices_len = 0
    /\ pctor.prices_levels = 1
    /\ pctor.raised = "ValueError"
    /\ pctor.msg = "prices must contain at least one observation"
    /\ pf = None

\* C20 witness of the column check: a non-empty table with flat columns
C20_FlatRefused ==
    /\ pctor # None
    /\ pctor.prices_len > 0
    /\ pctor.prices_levels = 1
    /\ pctor.raised = "TypeError"
    /\ pf = None

\* C20 witness of the commission check: a usable table, a negative commission
C20_NegativeRefused ==
    /\ pctor # None
    /\ pctor.prices_len > 0
    /\ pctor.prices_levels = 2
    /\ RLt(pctor.commission_bps, Zero)
    /\ pctor.raised = "ValueError"
    /\ pf = None

----------------------------------------------------------------------------
(* Claims about runs that share an instance *)

\* what a run of the instance as constructed returns or raises for argument x
FreshOutcome(sim, x) ==
    IF sim = "Backtester"
    THEN LET o == BacktesterRun(ctor.self, x)
         IN  [raised |-> o.raised, msg |-> o.msg, result |-> o.result]
    ELSE [raised |-> "none", msg |-> "",
          result |-> PortfolioRun(pctor.self, x).result]

\* C21: whatever runs have been made or are under way on the instance, it
\* stays as constructed and every signal stays as passed, and a run that has
\* ended returned (or raised) what a single run of the freshly constructed
\* instance returns for its signal
C21_RunsIndependent ==
    /\ bt # None => bt = ctor.self
    /\ pf # None => pf = pctor.self
    /\ \A i \in Threads :
          thr[i].pc # "idle" =>
              /\ thr[i].signal = thr[i].arg
              /\ thr[i].pc = "done" =>
                    [raised |-> thr[i].raised, msg |-> thr[i].msg,
                     result |-> thr[i].result]
                        = FreshOutcome(thr[i].sim, thr[i].arg)

\* C21 witness: two runs of one Backtester have ended, one on a part of the
\* price timestamps and one on all of them, with different results
C21_Witness ==
    /\ bt # None
    /\ thr[1].pc = "done"
    /\ thr[2].pc = "done"
    /\ thr[1].raised = "none"
    /\ thr[2].raised = "none"
    /\ Len(thr[1].result.data) = 2
    /\ Len(thr[2].result.data) = 3
    /\ thr[2].result.data[3].v # Zero

\* C21 witness of interleaving: a run is between its steps while another run
\* of the same PortfolioBacktester, on other signals, has ended
C21_Interleaved ==
    /\ pf # None
    /\ thr[1].pc = "done"
    /\ thr[2].pc = "pcosts"
    /\ thr[1].arg # thr[2].arg
    /\ thr[1].arg # None

\* C21 witness of a run after a failed one on the same Backtester
C21_AfterFailure ==
    /\ bt # None
    /\ thr[1].pc = "done"
    /\ thr[1].raised = "ValueError"
    /\ thr[2].pc = "done"
    /\ thr[2].raised = "none"

----------------------------------------------------------------------------
(* Claims about DataLoader.load *)

Loading == ld # None

SourceOrder == <<"csv", "url", "yfinance">>

\* the source was named in the call; yfinance is always there
Given(name) ==
    CASE name = "csv"      -> ld.filepath # None /\ ld.filepath.text # ""
      [] name = "url"      -> ld.url # None /\ ld.url.text # ""
      [] name = "yfinance" -> TRUE

GivenOrder == SelectSeq(SourceOrder, Given)

\* the table the source holds, None when it is missing, unreadable or empty
TableOf(name) ==
    LET read == IF name = "csv" THEN ld.world.file ELSE ld.world.url
        yf   == ld.world.yfinance
    IN  IF name = "yfinance"
        THEN IF ld.symbol # "" /\ yf.installed /\ ~Empty(yf.frame)
             THEN ResetIndex(yf.frame) ELSE None
        ELSE IF read.kind = "frame" /\ ~Empty(read.frame)
             THEN read.frame ELSE None

\* the source holds a non-empty table that passes cleaning
Yields(name) ==
    /\ Given(name)
    /\ TableOf(name) # None
    /\ Clean(TableOf(name)).raised = "none"

\* reading the source ends in an exception load has no handler for
Unhandled(name) ==
    /\ name \in {"csv", "url"}
    /\ Given(name)
    /\ LET read == IF name = "csv" THEN ld.world.file ELSE ld.world.url
       IN  /\ read.kind = "raise"
           /\ read.exc \notin {"FileNotFoundError", "OSError", "ParserError",
                               "EmptyDataError"}

\* the failure the source leaves behind, None when it merely gives nothing
FailureOf(name) ==
    IF name = "yfinance" /\ ld.symbol # "" /\ ~ld.world.yfinance.installed
    THEN "ImportError"
    ELSE IF TableOf(name) # None /\ Clean(TableOf(name)).raised # "none"
    THEN "ValueError"
    ELSE "none"

\* positions of GivenOrder whose source yields
Yielding == {k \in 1..Len(GivenOrder) : Yields(GivenOrder[k])}

\* no source up to position k of GivenOrder ends in an unhandled exception
Handled(k) == \A i \in 1..k : ~Unhandled(GivenOrder[i])

C22_FirstWins ==
    /\ Loading
    /\ ld.pc = "returned"
    /\ ld.world.file.kind = "frame"
    /\ Len(ld.world.file.frame.rows) = 3
    /\ IsNaN(ld.world.file.frame.rows[2].cells[6])
    /\ Yields("url")
    /\ Len(ld.tried) = 1
    /\ ld.result.rows = <<[idx |-> 1, cells |-> <<Int2R(100), Int2R(110),
                                                  Int2R(90), Int2R(107),
                                                  Int2R(1000)>>],
                          [idx |-> 3, cells |-> <<Int2R(100), Int2R(110),
                                                  Int2R(90), Int2R(105),
                                                  Int2R(1000)>>]>>

\* positions of GivenOrder whose source leaves a failure behind
Failing == {k \in 1..Len(GivenOrder) : FailureOf(GivenOrder[k]) # "none"}

C23_EarlierFailure ==
    /\ Loading
    /\ ld.pc = "raised"
    /\ Len(ld.tried) = 3
    /\ ld.tried[1].outcome = "ValueError"
    /\ ld.tried[2].outcome = "nothing"
    /\ ld.tried[3].outcome = "nothing"
    /\ ld.error.cause # None
    /\ ld.error.cause.msg = "Missing required OHLCV columns"

\* every source gave nothing: no cause
C23_NoCause ==
    /\ Loading
    /\ ld.pc = "raised"
    /\ Len(ld.tried) = 3
    /\ ld.error.type = "ValueError"
    /\ ld.error.cause = None

----------------------------------------------------------------------------
(* Claims about the metrics *)

Measured == mcall # None

\* the defined values of the returns handed to the metric
Defined == {mcall.rets[i].v : i \in {k \in 1..Len(mcall.rets) :
                                        ~IsNaN(mcall.rets[k].v)}}

\* the sample standard deviation exists and is zero: at least two defined
\* returns, all of them equal
ZeroDeviation ==
    /\ Cardinality({k \in 1..Len(mcall.rets) : ~IsNaN(mcall.rets[k].v)}) >= 2
    /\ Cardinality(Defined) = 1

\* no defined return is below zero
NoDownside == \A v \in Defined : RLe(Zero, v)

C24_NoDownside ==
    /\ Measured
    /\ mcall.fn = "sortino"
    /\ Defined = {Rat(1, 2), Int2R(1)}
    /\ mcall.result = NaN

\* a metric of the empty series
C24_Empty ==
    /\ Measured
    /\ mcall.fn = "sortino"
    /\ mcall.rets = <<>>
    /\ mcall.result = NaN

\* the same returns with a loss give a number
C24_Defined ==
    /\ Measured
    /\ mcall.fn = "sortino"
    /\ Len(mcall.rets) = 2
    /\ Defined = {Rat(-1, 2), Int2R(1)}
    /\ mcall.result # NaN
    /\ mcall.result.mean = Rat(1, 4)
    /\ mcall.result.variance = Rat(1, 8)

----------------------------------------------------------------------------
(* Claims about static target mode *)

\* the symbols of the table that have a target
Targeted == pf.symbols \cap DOMAIN pf.weights

\* positions of the timeline that are rebalance dates
RebalanceRows == {i \in 1..Len(rw.index) : rw.index[i] \in Range(rw.rebalance_dates)}

\* C25: at every rebalance date the weight matrix row holds the target of
\* every symbol that has one, and a symbol whose target is exactly 0 has
\* weight 0 at the rebalance date and at every later timestamp
C25_ZeroTarget ==
    rw # None =>
        \A i \in RebalanceRows :
            \A c \in Targeted :
                /\ rw.weight_matrix.rows[i].row[c] = pf.weights[c]
                /\ pf.weights[c] = Zero =>
                      \A j \in i..Len(rw.index) :
                          rw.weight_matrix.rows[j].row[c] = Zero

\* C25 witness: targets A: 1, B: 0, two rebalance dates with a timestamp
\* between them; B stays at 0 and A at 1 in every row
C25_Witness ==
    /\ rw # None
    /\ pf.symbols = {"A", "B"}
    /\ Targeted = {"A", "B"}
    /\ pf.weights["B"] = Zero
    /\ Len(rw.index) >= 3
    /\ 1 \in RebalanceRows
    /\ 2 \notin RebalanceRows
    /\ 3 \in RebalanceRows
    /\ \A j \in 1..Len(rw.index) :
          /\ rw.weight_matrix.rows[j].row["B"] = Zero
          /\ rw.weight_matrix.rows[j].row["A"] = Int2R(1)

\* no two timestamps of the timeline fall on one calendar day
OnePerDay ==
    \A i, j \in 1..Len(rw.index) :
        i # j => DayOf(rw.index[i]) # DayOf(rw.index[j])

\* C26: with daily frequency on a timeline that has at most one timestamp per
\* calendar day, the calendar is the whole timeline: every timestamp is a
\* rebalance date and its row holds the targets
C26_DailyCalendar ==
    (rw # None /\ pf.rebalance_freq = "D" /\ OnePerDay) =>
        /\ rw.rebalance_dates = rw.index
        /\ \A i \in 1..Len(rw.index) :
              \A c \in Targeted : rw.weight_matrix.rows[i].row[c] = pf.weights[c]

\* C26 witness: a daily calendar over consecutive days and days further
\* apart, as long as the timeline
C26_Witness ==
    /\ rw # None
    /\ pf.rebalance_freq = "D"
    /\ OnePerDay
    /\ Len(rw.index) >= 3
    /\ DayOf(rw.index[2]) = DayOf(rw.index[1]) + 1
    /\ DayOf(rw.index[3]) > DayOf(rw.index[2]) + 1
    /\ Len(rw.rebalance_dates) = Len(rw.index)

\* with two timestamps on one day the daily calendar is shorter than the
\* timeline
C26_TwoPerDay ==
    /\ rw # None
    /\ pf.rebalance_freq = "D"
    /\ ~OnePerDay
    /\ Len(rw.rebalance_dates) < Len(rw.index)

\* the run was made without a signal table
StaticMode == PRan /\ pcall.signals = None

\* the calendar the run would use under a frequency
CalendarAt(freq) == RebalanceDates(IndexSeq(pf.prices), freq)

\* C27: in static mode the first timestamp of the timeline is a rebalance
\* date, every weight matrix row holds the targets, and the returned series
\* is the one the same instance returns under each of the frequencies daily,
\* weekly, monthly and quarterly
C27_FrequencyIndependent ==
    StaticMode =>
        /\ CalendarAt(pf.rebalance_freq)[1] = pf.prices.rows[1].t
        /\ \A i \in 1..Len(pf.prices.rows) :
              \A c \in Targeted :
                  pcall.weight_matrix.rows[i].row[c] = pf.weights[c]
        /\ \A freq \in Freqs :
              PortfolioRun([pf EXCEPT !.rebalance_freq = freq], None).result
                  = pcall.result

\* C27 witness: a quarterly run over three timestamps, one rebalance date
\* where the monthly calendar has two, with unequal targets, a commission
\* and returns that are not zero
C27_Witness ==
    /\ StaticMode
    /\ pf.rebalance_freq = "QE"
    /\ Len(pf.prices.rows) = 3
    /\ Len(CalendarAt("QE")) = 1
    /\ Len(CalendarAt("ME")) = 2
    /\ Len(CalendarAt("W")) = 1
    /\ Targeted = {"A", "B"}
    /\ pf.weights["A"] = Rat(3, 4)
    /\ pcall.result.data[2].v # Zero
    /\ pcall.result.data[3].v # Zero
    /\ pf.commission_bps # Zero

\* C28: in static mode the positions never change once they are taken up, no
\* turnover is charged at any timestamp, and at every commission rate >= 0
\* the returned series is the zero-commission series
C28_StaticNoCommission ==
    StaticMode =>
        /\ \A i \in 3..Len(pcall.positions.rows) :
              pcall.positions.rows[i].row = pcall.positions.rows[i - 1].row
        /\ pcall.result.data = PortfolioAt(Zero)
        /\ \A i \in 1..Len(pcall.result.data) :
              pcall.result.data[i].v = PortfolioRaw(i)
        /\ \A c \in OtherBps : PortfolioAt(c) = PortfolioAt(Zero)

\* C28 witness: a static run at 10 basis points over three timestamps that
\* holds positions and earns returns other than zero
C28_Witness ==
    /\ StaticMode
    /\ pf.commission_bps = Int2R(10)
    /\ Len(pcall.result.data) = 3
    /\ ~AllZero(pcall.positions.rows[2].row)
    /\ pcall.result.data[2].v # Zero
    /\ pcall.result.data[3].v # Zero
    /\ pcall.result.data[2].v = PortfolioRaw(2)

----------------------------------------------------------------------------
(* Claims about the cost of the initial position *)

\* the cost charged at the i-th timestamp of the single-asset run
SingleCost(i) == RSub(RawReturn(i), call.result.data[i].v)

\* the cost charged at the i-th timestamp of the portfolio run
PortfolioCost(i) == RSub(PortfolioRaw(i), pcall.result.data[i].v)

\* C29: with a commission rate above 0, in both simulators, taking up the
\* first position costs nothing: the return at the second timestamp is the
\* return before costs, whatever the position there; and a cost is charged
\* only at a timestamp whose position and whose previous position are defined
C29_InitialPositionFree ==
    /\ (Ran /\ RLt(Zero, bt.commission_bps)) =>
          \A i \in 1..Len(call.result.data) :
              /\ i = 2 => call.result.data[i].v = RawReturn(i)
              /\ (~IsNaN(SingleCost(i)) /\ SingleCost(i) # Zero) =>
                    /\ i > 2
                    /\ ~IsNaN(call.positions[i].v)
                    /\ ~IsNaN(call.positions[i - 1].v)
    /\ (PRan /\ RLt(Zero, pf.commission_bps)) =>
          \A i \in 1..Len(pcall.result.data) :
              /\ i = 2 => pcall.result.data[i].v = PortfolioRaw(i)
              /\ PortfolioCost(i) # Zero =>
                    /\ i > 2
                    /\ \E c \in pcall.positions.columns :
                          /\ ~IsNaN(pcall.positions.rows[i].row[c])
                          /\ ~IsNaN(pcall.positions.rows[i - 1].row[c])
                          /\ pcall.positions.rows[i].row[c]
                                # pcall.positions.rows[i - 1].row[c]

\* C29 witness: a single-asset run with commission takes up a position of
\* the full size at the second timestamp, earns a return there and pays
\* nothing, and pays at the third timestamp, where the position changes
C29_Witness ==
    /\ Ran
    /\ RLt(Zero, bt.commission_bps)
    /\ Len(call.result.data) = 3
    /\ RAbs(call.positions[2].v) = bt.max_position
    /\ RLt(Zero, bt.max_position)
    /\ RawReturn(2) # Zero
    /\ call.result.data[2].v = RawReturn(2)
    /\ RLt(Zero, SingleCost(3))

\* the portfolio run with commission takes up its weights at the second
\* timestamp at no cost and pays where they change
C29_WitnessPortfolio ==
    /\ SignalMode
    /\ RLt(Zero, pf.commission_bps)
    /\ Len(pcall.result.data) = 3
    /\ ~AllZero(pcall.positions.rows[2].row)
    /\ PortfolioRaw(2) # Zero
    /\ pcall.result.data[2].v = PortfolioRaw(2)
    /\ RLt(Zero, PortfolioCost(3))

----------------------------------------------------------------------------
(* Claims about a signal that covers part of the price timeline *)

\* the shared timestamp before t
PrevShared(t) == Max({u \in Shared : u < t})

\* the product of the period-by-period price ratios of the price timeline
\* from timestamp lo to timestamp hi
RECURSIVE Growth(_, _)
Growth(lo, hi) ==
    IF hi = lo THEN Int2R(1)
    ELSE LET before == Max({u \in Index(bt.prices) : u < hi})
         IN  RMul(RDiv(PriceAt(hi), PriceAt(before)), Growth(lo, before))

\* C30: the result has an entry exactly at the shared timestamps; at a shared
\* timestamp t after the first, with t' the shared timestamp before it, the
\* price change is price(t)/price(t') - 1, which compounds every price move of
\* the price timeline between t' and t, the position is the signal at t'
\* clamped, and the return is their product less the cost
C30_PartialOverlap ==
    Ran =>
        /\ Index(call.result.data) = Shared
        /\ \A i \in 2..Len(call.result.data) :
              LET t    == call.result.data[i].t
                  prev == PrevShared(t)
              IN  /\ call.returns[i].t = t
                  /\ call.returns[i].v =
                        RSub(RDiv(PriceAt(t), PriceAt(prev)), Int2R(1))
                  /\ RAdd(call.returns[i].v, Int2R(1)) = Growth(prev, t)
                  /\ IsClampOf(call.positions[i].v, SignalAt(prev),
                               bt.max_position)
                  /\ call.result.data[i].v =
                        RSub(RMul(call.positions[i].v, call.returns[i].v),
                             RMul(FillNa(PositionChange(i), Zero),
                                  CommissionRate))

\* C30 witness: the signal has every price timestamp but one in the middle,
\* the last among them; the price moves into the skipped timestamp and out of
\* it, and a position is held at the last timestamp, whose return is taken
\* over both moves
C30_Witness ==
    /\ Ran
    /\ Len(bt.prices) = MaxT
    /\ Len(call.result.data) = Len(bt.prices) - 1
    /\ call.result.data[Len(call.result.data)].t = bt.prices[Len(bt.prices)].t
    /\ \E k \in 2..(Len(bt.prices) - 1) :
          /\ bt.prices[k].t \notin Index(call.signal.data)
          /\ bt.prices[k].v # bt.prices[k - 1].v
          /\ bt.prices[k].v # bt.prices[k + 1].v
    /\ ~IsNaN(call.positions[Len(call.positions)].v)
    /\ call.positions[Len(call.positions)].v # Zero

====
